---- MODULE Spec2Model ----
(***************************************************************************)
(* Verification model of the docsapi crawl-and-index pipeline.             *)
(*                                                                         *)
(*   - the per-host scheduler of src/lib/hig/fetch.ts (acquireHost,        *)
(*     fetchWithRateLimit)                                                 *)
(*   - the preload job orchestrator of src/lib/preload-job-manager.ts      *)
(*   - the local store writer of src/lib/preload-local.ts                  *)
(*   - URL discovery of src/lib/docset/preload.ts                          *)
(*                                                                         *)
(* Each component has its own specification over the shared variables; a   *)
(* component's specification leaves the other components' variables alone. *)
(***************************************************************************)
EXTENDS Integers, Sequences, FiniteSets, TLC

(***************************************************************************)
(* Bounds of the model.                                                    *)
(***************************************************************************)
\* number of acquireHost calls made by callers outside a preload job
MaxAcq == 3
\* largest minIntervalMs a caller passes (in clock ticks)
MaxIntervalMs == 2
\* the clock runs freely up to this many ticks after the start
MaxIdleTicks == 2

Hosts == {"a", "b"}
\* the minIntervalMs values callers pass: the shortest and the longest
Intervals == {1, MaxIntervalMs}

VARIABLES
  now,                \* Date.now()
  hostLocks,          \* fetch.ts hostLocks: host -> id of the acquisition whose lock promise is stored (0: none)
  hostLastRequestAt,  \* fetch.ts hostLastRequestAt: host -> time (0: no entry, the `?? 0` default)
  acqs,               \* the acquireHost calls made so far, in call order
  grantLog,           \* ids of acqs in the order they were granted
  job,                \* the PreloadJob objects created so far, by id
  preloadJobs,        \* preload-job-manager.ts preloadJobs: the ids the Map holds
  jobFile,            \* local/<id>/job.json: job id -> persisted snapshot
  task,               \* the runPreloadJob task of each job: position and locals
  workers,            \* the worker pool of each job
  nextJob,            \* number of jobs enqueued so far (ids are fresh)
  updatedOrder,       \* job ids ordered by updatedAt, oldest first
  expired,            \* jobs whose updatedAt is more than ttlMs ago
  siteIndexFile,      \* local/<slug>/site-index.json: the listed document summaries
  contentFiles,       \* local/<slug>/*.md: file base -> the document it holds
  indexFiles,         \* local/<slug>/*.index.json: file base -> the doc entry it holds
  sitesIndexTotal,    \* local/sites-index.json: totalDocs of the site's entry
  localOutput,        \* the LocalWriteResult of the last bundle write
  listedBefore,       \* documents stored by earlier successful bundle writes
  bundlesWritten,     \* number of bundle writes so far
  bundleWrites,       \* the writePreloadBundleToLocal calls of two concurrent jobs
  discOpts,           \* the base URL and options of the discovery run
  discPc,             \* where discoverDocumentationUrls is
  discPos,            \* index phase: <<index base, source>> tried next
  discovered,         \* the discovered Set, in insertion order
  seenCrawl,          \* the seenCrawl Set
  attempted,          \* diagnostics.attempted: the URLs the link crawl has fetched, in order
  queue,              \* the crawl frontier
  built,              \* the calls of buildPreloadBundle made: <<items, bundle>> each
  pruned,             \* the calls of prunePreloadJobs on a full table: table and result
  enqueueErrors,      \* the messages of the errors enqueuePreloadJob has thrown
  helperCalls,        \* the calls of the exported helpers made: function, input, result
  snapJobs,           \* snapshot writers: job id -> status and updatedAt of the job object
  snapJobFiles,       \* snapshot writers: job id -> status in local/<id>/job.json
  jobsList,           \* local/jobs.json: the entries, in file order
  snapWrites          \* the writeJobSnapshot calls in flight, by caller

hostVars == <<now, hostLocks, hostLastRequestAt, acqs, grantLog>>
jobVars == <<job, preloadJobs, jobFile, task, workers, nextJob, updatedOrder, expired>>
storeVars == <<siteIndexFile, contentFiles, indexFiles, sitesIndexTotal, localOutput,
               listedBefore, bundlesWritten, bundleWrites>>
discVars == <<discOpts, discPc, discPos, discovered, seenCrawl, attempted, queue>>
bundleVars == <<built, pruned>>
requestVars == <<enqueueErrors>>
helperVars == <<helperCalls>>
listVars == <<snapJobs, snapJobFiles, jobsList, snapWrites>>
vars == <<hostVars, jobVars, storeVars, discVars, bundleVars, requestVars, helperVars, listVars>>
notHostVars == <<jobVars, storeVars, discVars, bundleVars, requestVars, helperVars, listVars>>
notJobVars == <<storeVars, discVars, bundleVars, requestVars, helperVars, listVars>>
notStoreVars == <<hostVars, jobVars, discVars, bundleVars, requestVars, helperVars, listVars>>
notDiscVars == <<hostVars, jobVars, storeVars, bundleVars, requestVars, helperVars, listVars>>
notBundleVars == <<hostVars, jobVars, storeVars, discVars, requestVars, helperVars, listVars>>
notRequestVars == <<hostVars, jobVars, storeVars, discVars, bundleVars, helperVars, listVars>>
notHelperVars == <<hostVars, jobVars, storeVars, discVars, bundleVars, requestVars, listVars>>
notListVars == <<hostVars, jobVars, storeVars, discVars, bundleVars, requestVars, helperVars>>

(***************************************************************************)
(* HostScheduler: acquireHost / fetchWithRateLimit                         *)
(***************************************************************************)
\* Date.now() of a running process is far beyond any interval, so the first
\* acquisition of a host (last = 0) never waits.
StartTime == MaxIntervalMs

AcqIds == 1..Len(acqs)

\* owner of an acquisition made by a caller outside any preload job
Outside == <<0, 0>>

\* a stored lock that is the gate alone: resolved as soon as i is granted
LockResolvedAtGrant(i) == IF i = 0 THEN TRUE ELSE acqs[i].st \in {"granted", "released"}

\* the promise stored in hostLocks for acquisition i (gated.then(() => current))
\* is resolved once i was granted and its release handle was called
LockResolved(i) == IF i = 0 THEN TRUE ELSE acqs[i].st = "released"

Max0(x) == IF x > 0 THEN x ELSE 0

\* a gate that measures elapsed time from 0 instead of from the last request
WaitForSinceEpoch(host, minIntervalMs) ==
  LET elapsed == now
  IN Max0(minIntervalMs - elapsed)

\* waitFor of acquireHost's gate
WaitFor(host, minIntervalMs) ==
  LET last == hostLastRequestAt[host]
      elapsed == now - last
  IN Max0(minIntervalMs - elapsed)

\* a call that never chains on the stored lock
PreviousLockNone(h, host) == 0

\* a call that chains on the latest lock of any host (one global chain)
PreviousLockGlobal(h, host) == Len(h.acqs)

\* the previous lock promise a call chains on: hostLocks.get(host) ?? Promise.resolve()
\* (h holds the calls made so far and the hostLocks map)
PreviousLock(h, host) == h.locks[host]

\* the synchronous part of acquireHost: chain on the previous lock, store the new one
AcquireIn(h, host, minIntervalMs, owner) ==
  [acqs |-> Append(h.acqs,
              [host |-> host, minIntervalMs |-> minIntervalMs, previous |-> PreviousLock(h, host),
               st |-> "waiting", wakeAt |-> 0, grantedAt |-> 0, owner |-> owner]),
   locks |-> [h.locks EXCEPT ![host] = Len(h.acqs) + 1]]

CallAcquireHost(host, minIntervalMs, owner) ==
  LET h == AcquireIn([acqs |-> acqs, locks |-> hostLocks], host, minIntervalMs, owner)
  IN /\ acqs' = h.acqs
     /\ hostLocks' = h.locks

\* a caller outside any job calls fetchWithRateLimit -> acquireHost
AcquireHost(host, minIntervalMs) ==
  /\ Cardinality({i \in AcqIds : acqs[i].owner = Outside}) < MaxAcq
  /\ CallAcquireHost(host, minIntervalMs, Outside)
  /\ UNCHANGED <<now, hostLastRequestAt, grantLog, notHostVars>>

\* the body of previous.then(...): runs once the previous lock is resolved
Gate(i) ==
  /\ i \in AcqIds
  /\ acqs[i].st = "waiting"
  /\ LockResolved(acqs[i].previous)
  /\ LET w == WaitFor(acqs[i].host, acqs[i].minIntervalMs) IN
       IF w > 0
       THEN /\ acqs' = [acqs EXCEPT ![i].st = "sleeping", ![i].wakeAt = now + w]
            /\ UNCHANGED <<hostLastRequestAt, grantLog>>
       ELSE /\ acqs' = [acqs EXCEPT ![i].st = "granted", ![i].grantedAt = now]
            /\ hostLastRequestAt' = [hostLastRequestAt EXCEPT ![acqs[i].host] = now]
            /\ grantLog' = Append(grantLog, i)
  /\ UNCHANGED <<now, hostLocks, notHostVars>>

\* sleep(waitFor) is over: record the request time, the acquisition is granted
Wake(i) ==
  /\ i \in AcqIds
  /\ acqs[i].st = "sleeping"
  /\ now >= acqs[i].wakeAt
  /\ acqs' = [acqs EXCEPT ![i].st = "granted", ![i].grantedAt = now]
  /\ hostLastRequestAt' = [hostLastRequestAt EXCEPT ![acqs[i].host] = now]
  /\ grantLog' = Append(grantLog, i)
  /\ UNCHANGED <<now, hostLocks, notHostVars>>

\* a fetchWithRateLimit that returns without calling release
ReleaseLockNever(i) == acqs' = acqs

\* the finally block of fetchWithRateLimit
ReleaseLock(i) == acqs' = [acqs EXCEPT ![i].st = "released"]

\* the network call of an outside caller returns or throws
FetchSettle(i) ==
  /\ i \in AcqIds
  /\ acqs[i].owner = Outside
  /\ acqs[i].st = "granted"
  /\ ReleaseLock(i)
  /\ UNCHANGED <<now, hostLocks, hostLastRequestAt, grantLog, notHostVars>>

\* how the network call of a fetchWithRateLimit can end
FetchOutcomes == {"response", "transport error", "timeout abort", "caller abort"}

\* the network call of an outside caller ends with the given outcome, which
\* is logged with the call; the finally block runs however it ended
FetchSettles(i, outcome) ==
  /\ i \in AcqIds
  /\ acqs[i].owner = Outside
  /\ acqs[i].st = "granted"
  /\ ReleaseLock(i)
  /\ helperCalls' = Append(helperCalls,
                           [fn |-> "fetchWithRateLimit", input |-> i, result |-> outcome])
  /\ UNCHANGED <<now, hostLocks, hostLastRequestAt, grantLog>>
  /\ UNCHANGED <<jobVars, storeVars, discVars, bundleVars, requestVars, listVars>>

SleeperPending == \E i \in AcqIds : acqs[i].st = "sleeping" /\ now < acqs[i].wakeAt

\* time passes while a timer is pending
TickSleep ==
  /\ SleeperPending
  /\ now' = now + 1
  /\ UNCHANGED <<hostLocks, hostLastRequestAt, acqs, grantLog, notHostVars>>

\* time passes while nothing waits for it
TickIdle ==
  /\ ~SleeperPending
  /\ now < StartTime + MaxIdleTicks
  /\ now' = now + 1
  /\ UNCHANGED <<hostLocks, hostLastRequestAt, acqs, grantLog, notHostVars>>

(***************************************************************************)
(* JobOrchestrator: enqueuePreloadJob / runPreloadJob / prunePreloadJobs   *)
(***************************************************************************)
\* largest targets.length a job works on
MaxTargets == 2
\* largest concurrency a request asks for (the code allows 1..12)
MaxConcurrency == 2

\* the model follows one job through its life; other jobs and discovery show
\* up as outside callers of the host scheduler
JobIds == {1}
WorkerIds == 1..MaxConcurrency

\* prunePreloadJobs: maxJobs
maxJobs == 25

\* body.baseUrl values that pass the check of enqueuePreloadJob: a URL that
\* new URL() parses, and a non-blank string that it rejects
BaseUrls == {"https://a/", "not a url"}
UrlParses(baseUrl) == baseUrl = "https://a/"

NoResult == [present |-> FALSE, preloaded |-> 0, failed |-> 0]
NoJob ==
  [status |-> "none", discovered |-> 0, total |-> 0, completed |-> 0, failed |-> 0,
   error |-> "", result |-> NoResult]
ZeroProgress == [discovered |-> 0, total |-> 0, completed |-> 0, failed |-> 0]
NoFile == [status |-> "absent", error |-> "", progress |-> ZeroProgress]
NoTask ==
  [pc |-> "none", baseUrl |-> "", concurrency |-> 0, targets |-> 0, index |-> 0,
   items |-> <<>>, errors |-> <<>>, claims |-> <<>>, snap |-> NoFile]
IdleWorker == [pc |-> "idle", current |-> 0, acq |-> 0, snap |-> NoFile, outcome |-> ""]

Min(a, b) == IF a < b THEN a ELSE b

\* job.updatedAt = new Date().toISOString(): j becomes the most recently updated job
Touched(order, j) == Append(SelectSeq(order, LAMBDA x : x # j), j)

\* the TTL rule: ageMs > ttlMs && job.status !== "running"
TtlRemoves(status, isOld) == isOld /\ status # "running"

\* a size rule that skips no job
SizeRuleSkipsNone(status) == FALSE

\* the size rule: if (job.status === "running") continue
SizeRuleSkips(status) == status = "running"

\* prunePreloadJobs on a table whose jobs have the given statuses: order
\* lists the jobs by updatedAt, oldest first, old are the jobs older than
\* ttlMs; the result is the set of ids left in the table
PruneTable(status, table, order, old) ==
  LET afterTtl == {j \in table : ~TtlRemoves(status[j], j \in old)}
      evictable == SelectSeq(order, LAMBDA j : j \in afterTtl /\ ~SizeRuleSkips(status[j]))
      over == Min(Max0(Cardinality(afterTtl) - maxJobs), Len(evictable))
  IN afterTtl \ {evictable[k] : k \in 1..over}

\* prunePreloadJobs: the ids left in the table after the call
PrunePreloadJobs(table, order, old) ==
  PruneTable([j \in JobIds |-> job[j].status], table, order, old)

\* job.progress
Progress(jb) ==
  [discovered |-> jb.discovered, total |-> jb.total, completed |-> jb.completed, failed |-> jb.failed]

\* the snapshot object handed to safeWriteJobSnapshot for the job object jb
SnapshotOf(jb) == [status |-> jb.status, error |-> jb.error, progress |-> Progress(jb)]

\* the snapshot refers to job.progress and is serialized by JSON.stringify
\* after the await of mkdir: the counters written are those of some moment
\* between the call (from) and the end of the write (to)
SerializedProgress(from, to) ==
  [discovered : {to.discovered}, total : {to.total},
   completed : from.completed..to.completed, failed : from.failed..to.failed]

\* a safeWriteJobSnapshot without its catch
SafeWriteRethrows(ok) == ~ok

\* safeWriteJobSnapshot: does a failure of writeJobSnapshot reach the caller?
SafeWriteThrows(ok) == FALSE

\* writeJobSnapshot: job.json after the write of a snapshot
WriteJobSnapshot(file, snapshot, ok) == IF ok THEN snapshot ELSE file

\* a write that leaves the progress counters of job.json as they were
WriteSerializedStatusOnly(file, snapshot, progress, ok) ==
  WriteJobSnapshot(file, [snapshot EXCEPT !.progress = file.progress], ok)

\* writeJobSnapshot with the counters that JSON.stringify found
WriteSerialized(file, snapshot, progress, ok) ==
  WriteJobSnapshot(file, [snapshot EXCEPT !.progress = progress], ok)

\* the catch block of runPreloadJob, up to its await
FailedJob(jb, message) == [jb EXCEPT !.status = "failed", !.error = message]

CatchFailure(j, jb, message) ==
  /\ job' = [job EXCEPT ![j] = FailedJob(jb, message)]
  /\ updatedOrder' = Touched(updatedOrder, j)
  /\ expired' = expired \ {j}
  /\ task' = [task EXCEPT ![j].pc = "term_write",
                           ![j].snap = SnapshotOf(FailedJob(jb, message))]

\* time passes: the oldest k jobs are now older than ttlMs
TtlElapse(k) ==
  /\ k \in 1..Len(updatedOrder)
  /\ {updatedOrder[i] : i \in 1..k} \ expired # {}
  /\ expired' = expired \cup {updatedOrder[i] : i \in 1..k}
  /\ UNCHANGED <<job, preloadJobs, jobFile, task, workers, nextJob, updatedOrder, hostVars, notJobVars>>

\* enqueuePreloadJob up to its first await (the write of the queued snapshot)
Enqueue(baseUrl, concurrency) ==
  /\ nextJob < Cardinality(JobIds)
  /\ LET j == nextJob + 1 IN
       /\ preloadJobs' = PrunePreloadJobs(preloadJobs, updatedOrder, expired) \cup {j}
       /\ job' = [job EXCEPT ![j] = [NoJob EXCEPT !.status = "queued"]]
       /\ task' = [task EXCEPT ![j] = [NoTask EXCEPT !.pc = "enq_write", !.baseUrl = baseUrl,
                                         !.concurrency = concurrency,
                                         !.snap = SnapshotOf([NoJob EXCEPT !.status = "queued"])]]
       /\ nextJob' = j
       /\ updatedOrder' = Touched(updatedOrder, j)
       /\ expired' = expired \ {j}
  /\ UNCHANGED <<jobFile, workers, hostVars, notJobVars>>

\* body.baseUrl as a request gives it: a string, or nothing, or a number
BlankStrings == {"", "  "}
RequestBaseUrls ==
  {[type |-> "undefined", text |-> ""], [type |-> "number", text |-> ""]}
    \cup {[type |-> "string", text |-> t] : t \in BlankStrings \cup BaseUrls}

\* String.prototype.trim on the strings above
Trim(text) == IF text \in BlankStrings THEN "" ELSE text

\* a test that lets a blank string through
BaseUrlMissingTypeOnly(v) == v.type # "string"

\* typeof body.baseUrl !== "string" || !body.baseUrl.trim()
BaseUrlMissing(v) == v.type # "string" \/ Trim(v.text) = ""

\* body.concurrency as a request gives it: nothing, a string, NaN or an
\* infinity (a number that is not finite), or the finite number num/den
NoNumber(type) == [type |-> type, finite |-> FALSE, num |-> 0, den |-> 1]
Num(num, den) == [type |-> "number", finite |-> TRUE, num |-> num, den |-> den]
RequestConcurrencies ==
  {NoNumber("undefined"), NoNumber("string"), NoNumber("number"),
   Num(1, 2), Num(1, 1), Num(5, 2), Num(13, 1)}

\* the request bodies: every concurrency with the base URLs that are strings
\* with text, no concurrency with the others
Bodies ==
  {body \in [baseUrl : RequestBaseUrls, concurrency : RequestConcurrencies] :
     body.baseUrl.text \in BaseUrls \/ body.concurrency = NoNumber("undefined")}

\* Math.floor
Floor(x) == x.num \div x.den
Max(a, b) == IF a > b THEN a ELSE b

ConcurrencyLimit == 12
DefaultConcurrency == 4

\* the normalization of body.concurrency
NormalizeConcurrency(x) ==
  IF x.type = "number" /\ x.finite
  THEN Max(1, Min(ConcurrencyLimit, Floor(x)))
  ELSE DefaultConcurrency

\* enqueuePreloadJob(body) up to its first await after the local filesystem
\* was found usable: the baseUrl test throws, or the job is created
EnqueuePreloadJob(body) ==
  IF BaseUrlMissing(body.baseUrl)
  THEN /\ enqueueErrors' = enqueueErrors \cup {"baseUrl is required."}
       /\ UNCHANGED notRequestVars
  ELSE Enqueue(body.baseUrl.text, NormalizeConcurrency(body.concurrency))

\* the queued snapshot write settles; enqueue calls runPreloadJob, which runs
\* up to its first await (the write of the running snapshot)
EnqueueWritten(j, ok) ==
  /\ task[j].pc = "enq_write"
  /\ jobFile' = [jobFile EXCEPT ![j] = WriteSerialized(@, task[j].snap, Progress(job[j]), ok)]
  /\ IF SafeWriteThrows(ok) \/ j \notin preloadJobs
     THEN /\ task' = [task EXCEPT ![j].pc = "returned"]
          /\ UNCHANGED <<job, updatedOrder, expired>>
     ELSE /\ job' = [job EXCEPT ![j].status = "running"]
          /\ updatedOrder' = Touched(updatedOrder, j)
          /\ expired' = expired \ {j}
          /\ task' = [task EXCEPT ![j].pc = "run_write",
                                   ![j].snap = SnapshotOf([job[j] EXCEPT !.status = "running"])]
  /\ UNCHANGED <<preloadJobs, workers, nextJob, hostVars, notJobVars>>

\* the running snapshot write settles; discovery starts
RunWritten(j, ok) ==
  /\ task[j].pc = "run_write"
  /\ jobFile' = [jobFile EXCEPT ![j] = WriteSerialized(@, task[j].snap, Progress(job[j]), ok)]
  /\ IF SafeWriteThrows(ok)
     THEN CatchFailure(j, job[j], "snapshot write failed")
     ELSE /\ task' = [task EXCEPT ![j].pc = "discover"]
          /\ UNCHANGED <<job, updatedOrder, expired>>
  /\ UNCHANGED <<preloadJobs, workers, nextJob, hostVars, notJobVars>>

\* discoverDocumentationUrls settles: it throws when the base URL does not
\* parse, else it returns d URLs from which n targets are built
DiscoverDone(j, d, n) ==
  /\ task[j].pc = "discover"
  /\ IF ~UrlParses(task[j].baseUrl)
     THEN CatchFailure(j, job[j], "Invalid URL")
     ELSE LET counted == [job[j] EXCEPT !.discovered = d, !.total = n] IN
          IF n = 0
          THEN CatchFailure(j, counted, "No targets found to preload.")
          ELSE /\ job' = [job EXCEPT ![j] = counted]
               /\ updatedOrder' = Touched(updatedOrder, j)
               /\ expired' = expired \ {j}
               /\ task' = [task EXCEPT ![j].pc = "session", ![j].targets = n,
                                        ![j].claims = [t \in 1..n |-> 0]]
  /\ UNCHANGED <<preloadJobs, jobFile, workers, nextJob, hostVars, notJobVars>>

\* a claim that advances the index by two
ClaimIndexSkipping(t) ==
  [t EXCEPT !.index = @ + 2,
            !.claims = [c \in DOMAIN @ |-> IF c = t.index + 1 THEN @[c] + 1 ELSE @[c]]]

\* a worker takes the next index: const current = index; index += 1
\* (claims counts how often each target index was taken)
ClaimIndex(t) ==
  [t EXCEPT !.index = @ + 1,
            !.claims = [c \in DOMAIN @ |-> IF c = t.index + 1 THEN @[c] + 1 ELSE @[c]]]

\* a pool with one worker per target
PoolSizeTargets(concurrency, targets) == targets

\* the worker pool has this many workers
PoolSize(concurrency, targets) == Min(concurrency, targets)

\* fetchDocumentationMarkdown up to its first await: the page of the job's
\* site is requested through fetchWithRateLimit, which calls acquireHost
FetchDocumentationMarkdown(h, minIntervalMs, owner) == AcquireIn(h, "a", minIntervalMs, owner)

\* one pass through the top of a worker's while loop, up to its await: take an
\* index, stop when it is past the end, else call fetchWithRateLimit for it
\* (st holds the task, the pool and the host chain: the workers of a starting
\* pool run this one after the other)
WorkerIteration(st, j, w, m) ==
  LET current == st.t.index
      taken == ClaimIndex(st.t)
  IN IF current >= st.t.targets
     THEN [st EXCEPT !.t = taken, !.ws[w] = [IdleWorker EXCEPT !.pc = "done"]]
     ELSE [t |-> taken,
           ws |-> [st.ws EXCEPT ![w] = [IdleWorker EXCEPT !.pc = "fetch", !.current = current,
                                                          !.acq = Len(st.h.acqs) + 1]],
           h |-> FetchDocumentationMarkdown(st.h, m, <<j, w>>)]

RECURSIVE StartWorkers(_, _, _, _, _)
StartWorkers(st, j, w, k, m) ==
  IF w > k THEN st ELSE StartWorkers(WorkerIteration(st, j, w, m), j, w + 1, k, m)

PoolState(j) == [t |-> task[j], ws |-> workers[j], h |-> [acqs |-> acqs, locks |-> hostLocks]]

SetPoolState(j, st) ==
  /\ task' = [task EXCEPT ![j] = st.t]
  /\ workers' = [workers EXCEPT ![j] = st.ws]
  /\ acqs' = st.h.acqs
  /\ hostLocks' = st.h.locks

\* createLocalWriteSession settles; on success the workers are created
SessionDone(j, ok, m) ==
  /\ task[j].pc = "session"
  /\ IF ~ok
     THEN /\ CatchFailure(j, job[j], "Failed to initialize local output")
          /\ UNCHANGED <<workers, acqs, hostLocks>>
     ELSE LET k == PoolSize(task[j].concurrency, task[j].targets)
              pool == [PoolState(j) EXCEPT !.t.pc = "pool",
                         !.ws = [w \in WorkerIds |-> [IdleWorker EXCEPT !.pc = IF w <= k THEN "idle" ELSE "unused"]]]
          IN /\ SetPoolState(j, StartWorkers(pool, j, 1, k, m))
             /\ UNCHANGED <<job, updatedOrder, expired>>
  /\ UNCHANGED <<preloadJobs, jobFile, nextJob, now, hostLastRequestAt, grantLog, notJobVars>>

\* a per-target failure that also fails the job
TargetFailedAborts(jb) == [jb EXCEPT !.failed = @ + 1, !.status = "failed"]

\* the per-target bookkeeping of a worker before its finally block
TargetFailed(jb) == [jb EXCEPT !.failed = @ + 1]
TargetCompleted(jb) == [jb EXCEPT !.completed = @ + 1]

\* the finally block of a worker, up to its await: updatedAt, snapshot write
WorkerFinally(j, w, jb, outcome) ==
  /\ job' = [job EXCEPT ![j] = jb]
  /\ updatedOrder' = Touched(updatedOrder, j)
  /\ expired' = expired \ {j}
  /\ workers' = [workers EXCEPT ![j][w].pc = "snap", ![j][w].outcome = outcome,
                                ![j][w].snap = SnapshotOf(jb)]

\* fetchDocumentationMarkdown settles for the worker's target: the host lock
\* is released; on success the item is kept and the scratch write starts, on
\* failure the catch block records the error
WorkerFetchSettle(j, w, ok) ==
  /\ task[j].pc = "pool"
  /\ workers[j][w].pc = "fetch"
  /\ acqs[workers[j][w].acq].st = "granted"
  /\ ReleaseLock(workers[j][w].acq)
  /\ IF ok
     THEN /\ task' = [task EXCEPT ![j].items = Append(@, workers[j][w].current)]
          /\ workers' = [workers EXCEPT ![j][w].pc = "scratch"]
          /\ UNCHANGED <<job, updatedOrder, expired>>
     ELSE /\ task' = [task EXCEPT ![j].errors = Append(@, workers[j][w].current)]
          /\ WorkerFinally(j, w, TargetFailed(job[j]), "fetch failed")
  /\ UNCHANGED <<preloadJobs, jobFile, nextJob, now, hostLocks, hostLastRequestAt, grantLog, notJobVars>>

\* writeScrapedDocJson settles
WorkerScratchDone(j, w, ok) ==
  /\ task[j].pc = "pool"
  /\ workers[j][w].pc = "scratch"
  /\ IF ok
     THEN /\ WorkerFinally(j, w, TargetCompleted(job[j]), "written")
          /\ UNCHANGED task
     ELSE /\ task' = [task EXCEPT ![j].errors = Append(@, workers[j][w].current)]
          /\ WorkerFinally(j, w, TargetFailed(job[j]), "write failed")
  /\ UNCHANGED <<preloadJobs, jobFile, nextJob, hostVars, notJobVars>>

\* the worker's snapshot write settles; the worker loops
WorkerSnapshotWritten(j, w, ok, m) ==
  /\ task[j].pc = "pool"
  /\ workers[j][w].pc = "snap"
  /\ \E p \in SerializedProgress(workers[j][w].snap.progress, Progress(job[j])) :
       jobFile' = [jobFile EXCEPT ![j] = WriteSerialized(@, workers[j][w].snap, p, ok)]
  /\ SetPoolState(j, WorkerIteration(PoolState(j), j, w, m))
  /\ UNCHANGED <<job, preloadJobs, nextJob, updatedOrder, expired, now, hostLastRequestAt, grantLog, notJobVars>>

\* a pool check that never sees an empty item list
NothingPreloadedIgnored(items) == FALSE

\* items.length === 0
NothingPreloaded(items) == Len(items) = 0

\* Promise.all(workers) resolves; the bundle is built and its write starts
PoolDone(j) ==
  /\ task[j].pc = "pool"
  /\ \A w \in WorkerIds : workers[j][w].pc \in {"done", "unused"}
  /\ IF NothingPreloaded(task[j].items)
     THEN CatchFailure(j, job[j], "No pages could be preloaded. Check baseUrl and crawl settings.")
     ELSE /\ task' = [task EXCEPT ![j].pc = "bundle"]
          /\ UNCHANGED <<job, updatedOrder, expired>>
  /\ UNCHANGED <<preloadJobs, jobFile, workers, nextJob, hostVars, notJobVars>>

\* writePreloadBundleToLocal settles
BundleWritten(j, ok) ==
  /\ task[j].pc = "bundle"
  /\ IF ~ok
     THEN CatchFailure(j, job[j], "Failed to write local output")
     ELSE /\ task' = [task EXCEPT ![j].pc = "finalize"]
          /\ UNCHANGED <<job, updatedOrder, expired>>
  /\ UNCHANGED <<preloadJobs, jobFile, workers, nextJob, hostVars, notJobVars>>

\* job.result = {...}; job.status = "completed"
CompletedJob(jb, items, errors) ==
  [jb EXCEPT !.status = "completed",
             !.result = [present |-> TRUE, preloaded |-> Len(items), failed |-> Len(errors)]]

\* finalizeScrapedJsonl settles; on success the job completes
Finalized(j, ok) ==
  /\ task[j].pc = "finalize"
  /\ IF ~ok
     THEN CatchFailure(j, job[j], "Failed to finalize scraped JSONL")
     ELSE /\ job' = [job EXCEPT ![j] = CompletedJob(@, task[j].items, task[j].errors)]
          /\ updatedOrder' = Touched(updatedOrder, j)
          /\ expired' = expired \ {j}
          /\ task' = [task EXCEPT ![j].pc = "term_write",
                                   ![j].snap = SnapshotOf(CompletedJob(job[j], task[j].items, task[j].errors))]
  /\ UNCHANGED <<preloadJobs, jobFile, workers, nextJob, hostVars, notJobVars>>

\* the terminal snapshot write settles: runPreloadJob is over
TerminalWritten(j, ok) ==
  /\ task[j].pc = "term_write"
  /\ jobFile' = [jobFile EXCEPT ![j] = WriteSerialized(@, task[j].snap, Progress(job[j]), ok)]
  /\ IF SafeWriteThrows(ok) /\ task[j].snap.status = "completed"
     THEN CatchFailure(j, job[j], "snapshot write failed")
     ELSE /\ task' = [task EXCEPT ![j].pc = "done"]
          /\ UNCHANGED <<job, updatedOrder, expired>>
  /\ UNCHANGED <<preloadJobs, workers, nextJob, hostVars, notJobVars>>

\* getPreloadJobStatus / getPreloadJobResult: the only state they change is the
\* job table, through prunePreloadJobs
GetPreloadJobStatus(j) ==
  /\ preloadJobs' = PrunePreloadJobs(preloadJobs, updatedOrder, expired)
  /\ preloadJobs' # preloadJobs
  /\ UNCHANGED <<job, jobFile, task, workers, nextJob, updatedOrder, expired, hostVars, notJobVars>>

\* what jobs.json holds for a job: writeJobSnapshot puts the entry right
\* after it wrote job.json, so there is none while job.json is absent
JobsListEntry(file) == file.status

\* the answer of getPreloadJobStatus after its prunePreloadJobs(): from the
\* job object when the table has it, else from job.json, else from the
\* jobs.json list when that names an unfinished job, else null
StatusAnswer(inMemory, jb, file) ==
  IF inMemory
  THEN [found |-> TRUE, status |-> jb.status, progress |-> Progress(jb),
        hasResult |-> jb.result.present]
  ELSE IF file.status # "absent"
  THEN [found |-> TRUE, status |-> file.status, progress |-> file.progress,
        hasResult |-> file.status = "completed"]
  ELSE IF JobsListEntry(file) \notin {"absent", "completed", "failed"}
  THEN [found |-> TRUE, status |-> JobsListEntry(file), progress |-> ZeroProgress,
        hasResult |-> FALSE]
  ELSE [found |-> FALSE, status |-> "", progress |-> ZeroProgress, hasResult |-> FALSE]

\* a result query that looks at the job table only
ResultAnswerMemoryOnly(inMemory, jb, file) ==
  IF inMemory
  THEN IF jb.status = "failed" THEN "failed"
       ELSE IF jb.status # "completed" \/ ~jb.result.present THEN "unfinished"
       ELSE "completed"
  ELSE "not_found"

\* the state of the answer of getPreloadJobResult after its prunePreloadJobs()
ResultAnswer(inMemory, jb, file) ==
  IF inMemory
  THEN IF jb.status = "failed" THEN "failed"
       ELSE IF jb.status # "completed" \/ ~jb.result.present THEN "unfinished"
       ELSE "completed"
  ELSE IF file.status = "absent" THEN "not_found"
  ELSE IF file.status = "failed" THEN "failed"
  ELSE IF file.status = "completed" THEN "not_found"
  ELSE "unfinished"

\* is job j in the table once the query has called prunePreloadJobs()
InMemoryAfterPrune(j) == j \in PrunePreloadJobs(preloadJobs, updatedOrder, expired)

\* what getPreloadJobStatus(j) / getPreloadJobResult(j) answer in this state
GetPreloadJobStatusAnswer(j) == StatusAnswer(InMemoryAfterPrune(j), job[j], jobFile[j])
GetPreloadJobResultAnswer(j) == ResultAnswer(InMemoryAfterPrune(j), job[j], jobFile[j])

\* a snapshot write of job j has started and not settled
WriteInFlight(j) ==
  \/ task[j].pc \in {"enq_write", "run_write", "term_write"}
  \/ task[j].pc = "pool" /\ \E w \in WorkerIds : workers[j][w].pc = "snap"

\* the process stops and starts again: the job table, the tasks and the host
\* chain are memory and are gone, the files stay; a write that was in flight
\* is cut off.  (job keeps what the job objects last held.)
Restart ==
  /\ nextJob > 0
  /\ \A j \in JobIds : task[j].pc \notin {"dead", "cut"}
  /\ preloadJobs' = {}
  /\ task' = [j \in JobIds |->
               IF j > nextJob THEN task[j]
               ELSE [NoTask EXCEPT !.pc = IF WriteInFlight(j) THEN "cut" ELSE "dead"]]
  /\ workers' = [j \in JobIds |-> [w \in WorkerIds |-> IdleWorker]]
  /\ hostLocks' = [h \in Hosts |-> 0]
  /\ hostLastRequestAt' = [h \in Hosts |-> 0]
  /\ acqs' = <<>>
  /\ grantLog' = <<>>
  /\ UNCHANGED <<job, jobFile, nextJob, updatedOrder, expired, now, notJobVars>>

InitJob ==
  /\ job = [j \in JobIds |-> NoJob]
  /\ preloadJobs = {}
  /\ jobFile = [j \in JobIds |-> NoFile]
  /\ task = [j \in JobIds |-> NoTask]
  /\ workers = [j \in JobIds |-> [w \in WorkerIds |-> IdleWorker]]
  /\ nextJob = 0
  /\ updatedOrder = <<>>
  /\ expired = {}

(***************************************************************************)
(* SiteIndexBuilder / local store: buildPreloadBundle,                     *)
(* writePreloadBundleToLocal (one site directory ./local/<slug>/)          *)
(***************************************************************************)
\* documents of the site; a document is named by its URL, and the numbers
\* are ordered the way localeCompare orders the URLs
MaxDocs == 3
\* bundles written into the site directory in one run of the model
MaxBundles == 2

Docs == 1..MaxDocs

\* slugifyFileBase of a document's title: two documents share a title (a
\* slug is the sequence of the words that its hyphens join)
TitleSlug(u) == IF u = 2 THEN <<"api">> ELSE <<"guide">>

\* the elements of a set of numbers in ascending order ([...items].sort by url)
RECURSIVE SortedByUrl(_)
SortedByUrl(S) ==
  IF S = {} THEN <<>>
  ELSE LET least == CHOOSE u \in S : \A v \in S : u <= v
       IN <<least>> \o SortedByUrl(S \ {least})

\* `${base}-${count}`
Suffixed(base, count) == Append(base, ToString(count))

\* a uniqueFileBase that tries the suffix -2 only
UniqueFileBaseOnce(base, used) ==
  IF base \notin used THEN base ELSE Suffixed(base, 2)

\* uniqueFileBase: base, or base-2, base-3, ...: the first that is not used
UniqueFileBase(base, used) ==
  IF base \notin used THEN base
  ELSE LET count == CHOOSE c \in 2..(Cardinality(used) + 2) :
                      /\ Suffixed(base, c) \notin used
                      /\ \A b \in 2..(c - 1) : Suffixed(base, b) \in used
       IN Suffixed(base, count)

\* the summaries of buildPreloadBundle for sorted items: ids by position, file
\* names from the titles
RECURSIVE Summaries(_, _, _)
Summaries(sorted, index, used) ==
  IF index > Len(sorted) THEN <<>>
  ELSE LET fileBase == UniqueFileBase(TitleSlug(sorted[index]), used)
       IN <<[id |-> index, url |-> sorted[index], file |-> fileBase]>>
            \o Summaries(sorted, index + 1, used \cup {fileBase})

\* bundle.siteIndex.docs of buildPreloadBundle(baseUrl, items)
BuildPreloadBundle(batch) == Summaries(SortedByUrl(batch), 1, {})

\* the site-index.json that writePreloadBundleToLocal leaves: fs.writeFile of
\* bundle.siteIndex over whatever was there
WrittenSiteIndex(old, docs) == docs

\* fs.writeFile(path, ...) in the site directory
PutFile(files, name, content) ==
  {f \in files : f.file # name} \cup {[file |-> name, content |-> content]}

RECURSIVE PutDocs(_, _, _)
PutDocs(files, docs, n) ==
  IF n = 0 THEN files
  ELSE PutFile(PutDocs(files, docs, n - 1), docs[n].file, docs[n].url)

\* the `suggested` array of the index file with this name ("no file", "no
\* array" and "empty array" are all <<>>: the code treats them alike)
StoredSuggested(files, name) ==
  IF \E f \in files : f.file = name
  THEN (CHOOSE f \in files : f.file = name).content.suggested
  ELSE <<>>

\* mergeWithExistingDocIndex(indexPath, generated): doc, headings and links
\* of the generated index, `suggested` of the file found at indexPath
MergeWithExistingDocIndex(files, doc) ==
  [id |-> doc.id, url |-> doc.url, suggested |-> StoredSuggested(files, doc.file)]

RECURSIVE PutIndexes(_, _, _)
PutIndexes(files, docs, n) ==
  IF n = 0 THEN files
  ELSE LET before == PutIndexes(files, docs, n - 1)
       IN PutFile(before, docs[n].file, MergeWithExistingDocIndex(before, docs[n]))

\* tokenizeForOverlap / countSharedTerms: the documents whose contents share
\* enough terms to be suggested to each other (documents 2 and 3)
Related(u, v) == {u, v} = {2, 3}

\* the suggestions annotateSuggestedDocsInLocalDir computes for docs[k]: the
\* related documents of the bundle, as they are named in this bundle
RECURSIVE SuggestionsFor(_, _, _)
SuggestionsFor(docs, k, t) ==
  IF t > Len(docs) THEN <<>>
  ELSE (IF Related(docs[k].url, docs[t].url)
        THEN <<[docId |-> docs[t].id, url |-> docs[t].url, file |-> docs[t].file]>>
        ELSE <<>>) \o SuggestionsFor(docs, k, t + 1)

\* annotateSuggestedDocsInLocalDir(finalDir, docs): the index file found at
\* the document's name is written back with its own doc entry; a stored
\* non-empty list stays, else the computed suggestions are written; a
\* document without an index file is skipped
RECURSIVE AnnotateSuggestedDocs(_, _, _)
AnnotateSuggestedDocs(files, docs, n) ==
  IF n = 0 THEN files
  ELSE LET before == AnnotateSuggestedDocs(files, docs, n - 1)
           stored == StoredSuggested(before, docs[n].file)
       IN IF \E f \in before : f.file = docs[n].file
          THEN LET parsed == (CHOOSE f \in before : f.file = docs[n].file).content
               IN PutFile(before, docs[n].file,
                          [id |-> parsed.id, url |-> parsed.url,
                           suggested |-> IF Len(stored) > 0 THEN stored
                                         ELSE SuggestionsFor(docs, n, 1)])
          ELSE before

ListedUrls(siteIndex) == {siteIndex[k].url : k \in 1..Len(siteIndex)}

\* writePreloadBundleToLocal for the bundle of a batch of fetched documents.
\* stages is how far it gets before an fs call throws: 0 nothing is written,
\* 1 site-index.json, 1+k the files of the first k documents, and with
\* Len(docs)+2 stages sites-index.json is updated too and the call succeeds.
WritePreloadBundleToLocal(batch, stages) ==
  /\ bundlesWritten < MaxBundles
  /\ batch # {}
  /\ LET docs == BuildPreloadBundle(batch)
         n == Len(docs)
         k == Min(Max0(stages - 1), n)
     IN /\ stages \in 0..(n + 2)
        /\ siteIndexFile' = IF stages >= 1 THEN WrittenSiteIndex(siteIndexFile, docs) ELSE siteIndexFile
        /\ contentFiles' = PutDocs(contentFiles, docs, k)
        /\ indexFiles' = IF stages = n + 2
                         THEN AnnotateSuggestedDocs(PutIndexes(indexFiles, docs, k), docs, n)
                         ELSE PutIndexes(indexFiles, docs, k)
        /\ sitesIndexTotal' = IF stages = n + 2 THEN n ELSE sitesIndexTotal
        /\ localOutput' = [enabled |-> stages = n + 2, writtenDocs |-> k]
        /\ listedBefore' = IF stages = n + 2 THEN listedBefore \cup batch ELSE listedBefore
  /\ bundlesWritten' = bundlesWritten + 1
  /\ UNCHANGED <<bundleWrites, notStoreVars>>

\* the two jobs whose final writes share the site directory
BundleWriters == {"first job", "second job"}

IdleBundleWrite == [docs |-> <<>>, pc |-> "idle", k |-> 0]

\* runPreloadJob calls writePreloadBundleToLocal(bundle, result) with the
\* bundle of the documents it fetched
CallWriteBundle(w, batch) ==
  /\ bundleWrites[w].pc = "idle"
  /\ batch # {}
  /\ bundleWrites' = [bundleWrites EXCEPT ![w] =
                        [docs |-> BuildPreloadBundle(batch), pc |-> "siteIndex", k |-> 1]]
  /\ UNCHANGED <<siteIndexFile, contentFiles, indexFiles, sitesIndexTotal, localOutput,
                 listedBefore, bundlesWritten, notStoreVars>>

\* await fs.writeFile(site-index.json, bundle.siteIndex)
WriteSiteIndexFile(w) ==
  /\ bundleWrites[w].pc = "siteIndex"
  /\ siteIndexFile' = WrittenSiteIndex(siteIndexFile, bundleWrites[w].docs)
  /\ bundleWrites' = [bundleWrites EXCEPT ![w].pc = "content"]
  /\ UNCHANGED <<contentFiles, indexFiles, sitesIndexTotal, localOutput,
                 listedBefore, bundlesWritten, notStoreVars>>

\* await fs.writeFile(doc.contentFile, content) of the document in turn
WriteContentFile(w) ==
  /\ bundleWrites[w].pc = "content"
  /\ LET doc == bundleWrites[w].docs[bundleWrites[w].k]
     IN contentFiles' = PutFile(contentFiles, doc.file, doc.url)
  /\ bundleWrites' = [bundleWrites EXCEPT ![w].pc = "index"]
  /\ UNCHANGED <<siteIndexFile, indexFiles, sitesIndexTotal, localOutput,
                 listedBefore, bundlesWritten, notStoreVars>>

\* mergeWithExistingDocIndex and fs.writeFile(doc.indexFile, mergedIndex) of
\* the document in turn; the loop goes to the next document
WriteIndexFile(w) ==
  /\ bundleWrites[w].pc = "index"
  /\ LET doc == bundleWrites[w].docs[bundleWrites[w].k]
     IN indexFiles' = PutFile(indexFiles, doc.file, MergeWithExistingDocIndex(indexFiles, doc))
  /\ bundleWrites' = [bundleWrites EXCEPT ![w] =
                        IF @.k < Len(@.docs)
                        THEN [@ EXCEPT !.pc = "content", !.k = @ + 1]
                        ELSE [@ EXCEPT !.pc = "finish"]]
  /\ UNCHANGED <<siteIndexFile, contentFiles, sitesIndexTotal, localOutput,
                 listedBefore, bundlesWritten, notStoreVars>>

\* updateLocalSitesIndex and annotateSuggestedDocsInLocalDir; the call returns
FinishBundleWrite(w) ==
  /\ bundleWrites[w].pc = "finish"
  /\ sitesIndexTotal' = Len(bundleWrites[w].docs)
  /\ indexFiles' = AnnotateSuggestedDocs(indexFiles, bundleWrites[w].docs, Len(bundleWrites[w].docs))
  /\ bundleWrites' = [bundleWrites EXCEPT ![w].pc = "done"]
  /\ UNCHANGED <<siteIndexFile, contentFiles, localOutput,
                 listedBefore, bundlesWritten, notStoreVars>>

InitStore ==
  /\ siteIndexFile = <<>>
  /\ contentFiles = {}
  /\ indexFiles = {}
  /\ sitesIndexTotal = 0
  /\ localOutput = [enabled |-> TRUE, writtenDocs |-> 0]
  /\ listedBefore = {}
  /\ bundlesWritten = 0
  /\ bundleWrites = [w \in BundleWriters |-> IdleBundleWrite]

NextStore ==
  \E batch \in SUBSET Docs, stages \in 0..(MaxDocs + 2) : WritePreloadBundleToLocal(batch, stages)

\* two jobs for one base URL write their bundles into ./local/<slug>/ at
\* the same time, every fs call succeeds
NextConcurrentWrites ==
  \E w \in BundleWriters :
    \/ \E batch \in SUBSET Docs : CallWriteBundle(w, batch)
    \/ WriteSiteIndexFile(w)
    \/ WriteContentFile(w)
    \/ WriteIndexFile(w)
    \/ FinishBundleWrite(w)

(***************************************************************************)
(* DiscoveryEngine: discoverDocumentationUrls                              *)
(***************************************************************************)
\* largest maxDiscover of a discovery run (the code allows 1..2000)
MaxDiscoverBound == 3
\* largest maxDepth of a discovery run (the code allows 1..5)
MaxDepthBound == 2
\* most URLs one sitemap, search index or page yields
MaxLinks == 2

\* the normalized base URLs of the runs: a site root, a page below it, and a
\* file whose extension is on the blocklist (any URL that new URL() parses)
DiscoveryBases ==
  {"https://a/", "https://a/docs", "https://a/manual.pdf", "https://a/docs#top", "a/docs#top"}

\* new URL(url) throws on a string that has no scheme
ParsesAsUrl(url) == url # "a/docs#top"

\* normalizeUrl of a string that parses: parsed.hash = "", parsed.toString()
NormalizeUrl(url) == IF url = "https://a/docs#top" THEN "https://a/docs" ELSE url

\* the URLs that sitemaps, search indexes and pages refer to (normalized by
\* parseSitemapUrls / parseSearchIndexUrls / parseLinksFromHtml)
Candidates == {"https://a/", "https://a/p1", "https://a/p2", "https://b/x", "https://a/logo.png", "ftp://a/f"}

SchemeOf(url) == IF url = "ftp://a/f" THEN "ftp:" ELSE "https:"
HostnameOf(url) == IF url = "https://b/x" THEN "b" ELSE "a"
\* does the path end in one of NON_DOC_EXTENSIONS
HasNonDocExtension(url) == url \in {"https://a/logo.png", "https://a/manual.pdf"}

SITEMAP_PATHS == <<"sitemap.xml", "sitemap_index.xml">>
SEARCH_INDEX_PATHS ==
  <<"search/search_index.json", "searchindex.json", "search.json", "search-index.json", "searchindex.js">>

\* buildIndexBaseCandidates: the current directory and the site root, deduped
BuildIndexBaseCandidates(base) ==
  IF base = "https://a/" THEN <<"https://a/">>
  ELSE IF base = "https://a/docs" THEN <<"https://a/docs/", "https://a/">>
  ELSE <<"https://a/manual.pdf/", "https://a/">>

IsAllowedUrl(url, base, sameHostOnly) ==
  /\ SchemeOf(url) \in {"http:", "https:"}
  /\ ~(sameHostOnly /\ HostnameOf(url) # HostnameOf(base))

Range(s) == {s[k] : k \in 1..Len(s)}

\* a page test that lets every URL through
IsLikelyDocumentationPageAny(url) == TRUE

\* isLikelyDocumentationPage
IsLikelyDocumentationPage(url) == ~HasNonDocExtension(url)

\* Set.add on the insertion-ordered discovered set
SetAdd(set, url) == IF url \in Range(set) THEN set ELSE Append(set, url)

\* a cap test that lets one URL too many in
CapReachedLate(size, maxDiscover) == size > maxDiscover

\* discovered.size >= maxDiscover
CapReached(size, maxDiscover) == size >= maxDiscover

\* the admission loop of tryDiscoverFromSitemap / tryDiscoverFromSearchIndex
RECURSIVE AdmitFromIndex(_, _, _, _)
AdmitFromIndex(found, urls, i, opts) ==
  IF i > Len(urls) THEN found
  ELSE IF ~IsAllowedUrl(urls[i], opts.base, opts.sameHostOnly) THEN AdmitFromIndex(found, urls, i + 1, opts)
  ELSE IF ~IsLikelyDocumentationPage(urls[i]) THEN AdmitFromIndex(found, urls, i + 1, opts)
  ELSE LET added == SetAdd(found, urls[i])
       IN IF CapReached(Len(added), opts.maxDiscover) THEN added
          ELSE AdmitFromIndex(added, urls, i + 1, opts)

\* a crawl that also enqueues the links of a page at depth maxDepth
MayEnqueueAtMaxDepth(depth, maxDepth) == depth <= maxDepth

\* if (current.depth < maxDepth) queue.push(...)
MayEnqueue(depth, maxDepth) == depth < maxDepth

\* a Set that finds none of its members
HasNever(members, url) == FALSE

\* Set.prototype.has of the crawl's sets: discovered.has(link), seenCrawl.has(url)
Has(members, url) == url \in members

\* the link loop of the crawl for the page at depth (st: discovered set and queue)
RECURSIVE AdmitLinks(_, _, _, _, _)
AdmitLinks(st, links, i, depth, opts) ==
  IF i > Len(links) THEN st
  ELSE IF ~IsAllowedUrl(links[i], opts.base, opts.sameHostOnly) THEN AdmitLinks(st, links, i + 1, depth, opts)
  ELSE IF ~IsLikelyDocumentationPage(links[i]) THEN AdmitLinks(st, links, i + 1, depth, opts)
  ELSE IF Has(Range(st.discovered), links[i]) THEN AdmitLinks(st, links, i + 1, depth, opts)
  ELSE LET added == [discovered |-> Append(st.discovered, links[i]),
                     queue |-> IF MayEnqueue(depth, opts.maxDepth)
                               THEN Append(st.queue, [url |-> links[i], depth |-> depth + 1])
                               ELSE st.queue]
       IN IF CapReached(Len(added.discovered), opts.maxDiscover) THEN added
          ELSE AdmitLinks(added, links, i + 1, depth, opts)

\* what a fetched source yields: the fetch fails, or a deduped list of URLs
UrlLists ==
  {s \in UNION {[1..n -> Candidates] : n \in 0..MaxLinks} :
     \A a \in DOMAIN s : \A b \in DOMAIN s : a # b => s[a] # s[b]}

\* the index sources of one index base, in order
IndexSources == SITEMAP_PATHS \o SEARCH_INDEX_PATHS

\* discoverDocumentationUrls up to its first await
\* (normalizeUrl(baseUrl) throws when baseUrl does not parse: nothing is seeded)
DiscoverDocumentationUrls(baseUrl, maxDiscover, maxDepth, includeIndexes, includeLinks, sameHostOnly) ==
  /\ discPc = "idle"
  /\ seenCrawl' = {}
  /\ attempted' = <<>>
  /\ discPos' = <<1, 1>>
  /\ IF ~ParsesAsUrl(baseUrl)
     THEN /\ discOpts' = [baseUrl |-> baseUrl, base |-> "", maxDiscover |-> maxDiscover,
                          maxDepth |-> maxDepth, includeIndexes |-> includeIndexes,
                          includeLinks |-> includeLinks, sameHostOnly |-> sameHostOnly]
          /\ discovered' = <<>>
          /\ queue' = <<>>
          /\ discPc' = "threw"
     ELSE LET base == NormalizeUrl(baseUrl) IN
          /\ discOpts' = [baseUrl |-> baseUrl, base |-> base, maxDiscover |-> maxDiscover,
                          maxDepth |-> maxDepth, includeIndexes |-> includeIndexes,
                          includeLinks |-> includeLinks, sameHostOnly |-> sameHostOnly]
          /\ discovered' = <<base>>
          /\ queue' = <<[url |-> base, depth |-> 0]>>
          /\ discPc' = IF includeIndexes THEN "indexes" ELSE IF includeLinks THEN "links" ELSE "done"
  /\ UNCHANGED notDiscVars

\* the position after source <<b, s>>, and after a break of its inner loop
NextSource(pos) == IF pos[2] < Len(IndexSources) THEN <<pos[1], pos[2] + 1>> ELSE <<pos[1] + 1, 1>>
AfterBreak(pos) == IF pos[2] <= Len(SITEMAP_PATHS) THEN <<pos[1], Len(SITEMAP_PATHS) + 1>> ELSE <<pos[1] + 1, 1>>

IndexPhaseOver(pos) == pos[1] > Len(BuildIndexBaseCandidates(discOpts.base))

\* one pass of the inner loops of the index phase: the cap test, then
\* tryDiscoverFromSitemap / tryDiscoverFromSearchIndex for the source
IndexPass(ok, urls) ==
  /\ discPc = "indexes"
  /\ ~IndexPhaseOver(discPos)
  /\ IF CapReached(Len(discovered), discOpts.maxDiscover)
     THEN /\ discPos' = AfterBreak(discPos)
          /\ UNCHANGED discovered
     ELSE /\ discPos' = NextSource(discPos)
          /\ discovered' = IF ok THEN AdmitFromIndex(discovered, urls, 1, discOpts) ELSE discovered
  /\ UNCHANGED <<discOpts, discPc, seenCrawl, attempted, queue>>

IndexSource(ok, urls) == IndexPass(ok, urls) /\ UNCHANGED notDiscVars

\* the index phase is over
IndexPhaseDone ==
  /\ discPc = "indexes"
  /\ IndexPhaseOver(discPos)
  /\ discPc' = IF discOpts.includeLinks THEN "links" ELSE "done"
  /\ UNCHANGED <<discOpts, discPos, discovered, seenCrawl, attempted, queue, notDiscVars>>

\* one pass of the while loop of the link crawl: the fetch of the page
\* fails, or the page has the given links
CrawlPass(ok, links) ==
  /\ discPc = "links"
  /\ Len(queue) > 0 /\ Len(discovered) < discOpts.maxDiscover
  /\ LET current == Head(queue)
         rest == Tail(queue)
     IN IF current.depth > discOpts.maxDepth \/ Has(seenCrawl, current.url)
        THEN /\ queue' = rest
             /\ UNCHANGED <<discovered, seenCrawl, attempted>>
        ELSE /\ seenCrawl' = seenCrawl \cup {current.url}
             /\ attempted' = Append(attempted, current.url)
             /\ IF ~ok
                THEN /\ queue' = rest
                     /\ UNCHANGED discovered
                ELSE LET st == AdmitLinks([discovered |-> discovered, queue |-> rest],
                                          links, 1, current.depth, discOpts)
                     IN /\ discovered' = st.discovered
                        /\ queue' = st.queue
  /\ UNCHANGED <<discOpts, discPc, discPos>>

CrawlStep(ok, links) == CrawlPass(ok, links) /\ UNCHANGED notDiscVars

\* the same pass, with what parseLinksFromHtml returned for the page kept
\* (nothing when the page was skipped or its fetch failed)
CrawlStepLinks(ok, links) ==
  /\ CrawlPass(ok, links)
  /\ helperCalls' = <<[fn |-> "parseLinksFromHtml", input |-> Head(queue).url,
                       result |-> IF ok /\ attempted' # attempted THEN links ELSE <<>>]>>
  /\ UNCHANGED <<hostVars, jobVars, storeVars, bundleVars, requestVars, listVars>>

\* the while loop ends: the discovered set is returned
CrawlDone ==
  /\ discPc = "links"
  /\ ~(Len(queue) > 0 /\ Len(discovered) < discOpts.maxDiscover)
  /\ discPc' = "done"
  /\ UNCHANGED <<discOpts, discPos, discovered, seenCrawl, attempted, queue, notDiscVars>>

NoOpts == [baseUrl |-> "", base |-> "", maxDiscover |-> 0, maxDepth |-> 0, includeIndexes |-> FALSE,
           includeLinks |-> FALSE, sameHostOnly |-> FALSE]

InitDisc ==
  /\ discOpts = NoOpts
  /\ discPc = "idle"
  /\ discPos = <<1, 1>>
  /\ discovered = <<>>
  /\ seenCrawl = {}
  /\ attempted = <<>>
  /\ queue = <<>>

NextDisc ==
  \/ \E base \in DiscoveryBases, maxDiscover \in 1..MaxDiscoverBound, maxDepth \in 1..MaxDepthBound,
        includeIndexes \in BOOLEAN, includeLinks \in BOOLEAN, sameHostOnly \in BOOLEAN :
       DiscoverDocumentationUrls(base, maxDiscover, maxDepth, includeIndexes, includeLinks, sameHostOnly)
  \/ \E ok \in BOOLEAN, urls \in UrlLists : IndexSource(ok, urls)
  \/ IndexPhaseDone
  \/ \E ok \in BOOLEAN, links \in UrlLists : CrawlStep(ok, links)
  \/ CrawlDone

\* how the attempt of one source (a sitemap, a search index, a page) can go:
\* fetchText throws, or the text has nothing the parser understands (the
\* parsers return [] then), or the parser returns URLs
SourceOutcomes == {"fetch failed", "unparsable", "parsed"}

\* a source that records no error
DiagnosticsSilent(outcome) ==
  [attempted |-> TRUE, fetched |-> outcome # "fetch failed", errors |-> FALSE]

\* what the attempt of a source pushes to diagnostics: attempted before the
\* fetch, fetched after it, errors in the catch
Diagnostics(outcome) ==
  [attempted |-> TRUE, fetched |-> outcome # "fetch failed", errors |-> outcome = "fetch failed"]

\* the URLs a source yields
Parsed(outcome, urls) == IF outcome = "parsed" THEN urls ELSE <<>>

\* the diagnostics entries of the source attempted last
DiagnosticsOf(source, outcome) ==
  <<[fn |-> "diagnostics", input |-> [source |-> source, outcome |-> outcome],
     result |-> Diagnostics(outcome)]>>

\* a pass of the index phase, with the diagnostics of its source kept (a
\* pass that only breaks out of the loop attempts nothing)
IndexSourceDiagnosed(outcome, urls) ==
  /\ IndexPass(outcome # "fetch failed", Parsed(outcome, urls))
  /\ helperCalls' = IF CapReached(Len(discovered), discOpts.maxDiscover) THEN helperCalls
                     ELSE DiagnosticsOf([pos |-> discPos, url |-> ""], outcome)
  /\ UNCHANGED <<hostVars, jobVars, storeVars, bundleVars, requestVars, listVars>>

\* a pass of the crawl, with the diagnostics of its page kept (a pass that
\* skips the queue entry attempts nothing)
CrawlStepDiagnosed(outcome, links) ==
  /\ CrawlPass(outcome # "fetch failed", Parsed(outcome, links))
  /\ helperCalls' = IF attempted' = attempted THEN helperCalls
                     ELSE DiagnosticsOf([pos |-> discPos, url |-> Head(queue).url], outcome)
  /\ UNCHANGED <<hostVars, jobVars, storeVars, bundleVars, requestVars, listVars>>

NextDiagnostics ==
  \/ \E base \in DiscoveryBases, maxDiscover \in 1..MaxDiscoverBound, maxDepth \in 1..MaxDepthBound,
        includeIndexes \in BOOLEAN, includeLinks \in BOOLEAN, sameHostOnly \in BOOLEAN :
       DiscoverDocumentationUrls(base, maxDiscover, maxDepth, includeIndexes, includeLinks, sameHostOnly)
  \/ \E urls \in UrlLists : IndexSourceDiagnosed("parsed", urls)
  \/ \E outcome \in SourceOutcomes \ {"parsed"} : IndexSourceDiagnosed(outcome, <<>>)
  \/ IndexPhaseDone
  \/ \E links \in UrlLists : CrawlStepDiagnosed("parsed", links)
  \/ \E outcome \in SourceOutcomes \ {"parsed"} : CrawlStepDiagnosed(outcome, <<>>)
  \/ CrawlDone

\* a discovery run whose crawl keeps the links of the page fetched last
NextCrawl ==
  \/ \E base \in DiscoveryBases, maxDiscover \in 1..MaxDiscoverBound, maxDepth \in 1..MaxDepthBound,
        includeIndexes \in BOOLEAN, includeLinks \in BOOLEAN, sameHostOnly \in BOOLEAN :
       DiscoverDocumentationUrls(base, maxDiscover, maxDepth, includeIndexes, includeLinks, sameHostOnly)
  \/ \E ok \in BOOLEAN, urls \in UrlLists : IndexSource(ok, urls)
  \/ IndexPhaseDone
  \/ \E ok \in BOOLEAN, links \in UrlLists : CrawlStepLinks(ok, links)
  \/ CrawlDone

(***************************************************************************)
(* SiteIndexBuilder: buildPreloadBundle on arrays of PreloadItem           *)
(***************************************************************************)
\* largest items array handed to buildPreloadBundle
MaxItems == 3

\* URLs of one site: page 0 is outside the site; slash: the path ends in "/";
\* hash: the URL has a fragment
Url(page, slash, hash) == [page |-> page, slash |-> slash, hash |-> hash]
ItemUrls == {Url(1, FALSE, FALSE), Url(1, TRUE, FALSE), Url(2, FALSE, FALSE)}
\* the resolved targets of the markdown links of a page
LinkUrls ==
  {Url(1, FALSE, TRUE), Url(1, TRUE, FALSE), Url(2, FALSE, FALSE), Url(2, TRUE, TRUE), Url(0, FALSE, FALSE)}

\* page contents: the text of the first "# " heading ("" when there is none)
\* and the resolved link targets in document order
Contents ==
  {[title |-> "Guide", links |-> <<>>],
   [title |-> "", links |-> <<Url(1, FALSE, TRUE), Url(2, TRUE, TRUE), Url(0, FALSE, FALSE)>>]}

\* item.path: the target path the page was fetched for
Paths == {"/", "/alt"}

PreloadItems == [url : ItemUrls, path : Paths, content : Contents]

\* a.url.localeCompare(b.url): URLs compare by page, then "" < "/" and no
\* fragment < fragment
UrlRank(u) == 4 * u.page + (IF u.slash THEN 2 ELSE 0) + (IF u.hash THEN 1 ELSE 0)
LocaleCompare(a, b) == UrlRank(a) - UrlRank(b)

\* Array.prototype.sort is stable: an item goes behind every item that does
\* not compare greater than it
RECURSIVE InsertSorted(_, _)
InsertSorted(sorted, x) ==
  IF sorted = <<>> THEN <<x>>
  ELSE IF LocaleCompare(Head(sorted).url, x.url) <= 0
       THEN <<Head(sorted)>> \o InsertSorted(Tail(sorted), x)
       ELSE <<x>> \o sorted

RECURSIVE SortItems(_, _)
SortItems(items, k) ==
  IF k = 0 THEN <<>> ELSE InsertSorted(SortItems(items, k - 1), items[k])

\* normalizedItems = [...items].sort((a, b) => a.url.localeCompare(b.url))
NormalizedItems(items) == SortItems(items, Len(items))

\* `doc-${String(index + 1).padStart(5, "0")}` for the 0-based index
DocId(index) == <<"doc", index + 1>>

\* humanizePath: the last segment of the path, or of the URL's pathname
HumanizePath(path, url) ==
  IF path # "/" THEN "alt" ELSE IF url.page = 1 THEN "p1" ELSE "p2"

\* extractMarkdownTitle(item.content) || humanizePath(item.path, item.url)
ItemTitle(item) ==
  IF item.content.title # "" THEN item.content.title ELSE HumanizePath(item.path, item.url)

\* the lower-cased runs of letters and digits of a title
TitleWords(title) ==
  CASE title = "Guide" -> <<"guide">>
    [] title = "Guide 2" -> <<"guide", "2">>
    [] title = "?" -> <<>>
    [] OTHER -> <<title>>

\* slugifyFileBase: the words joined by "-", or "document" when there is none
SlugifyFileBase(title) ==
  IF TitleWords(title) = <<>> THEN <<"document">> ELSE TitleWords(title)

\* the summaries of buildPreloadBundle for the sorted items from position k on
RECURSIVE DocSummaries(_, _, _)
DocSummaries(sorted, k, used) ==
  IF k > Len(sorted) THEN <<>>
  ELSE LET fileBase == UniqueFileBase(SlugifyFileBase(ItemTitle(sorted[k])), used)
       IN <<[id |-> DocId(k - 1), path |-> sorted[k].path, url |-> sorted[k].url,
             title |-> ItemTitle(sorted[k]), file |-> fileBase]>>
            \o DocSummaries(sorted, k + 1, used \cup {fileBase})

\* normalizeComparableUrl: the fragment goes, then one trailing "/"
NormalizeComparableUrl(url) == [url EXCEPT !.hash = FALSE, !.slash = FALSE]

\* urlToId.get(key) after the summaries were built: every item did
\* urlToId.set(normalizeComparableUrl(item.url), id), a later one over an
\* earlier one; Undefined when no item set the key
Undefined == <<"undefined", 0>>
UrlToId(sorted, key) ==
  LET hits == {k \in 1..Len(sorted) : NormalizeComparableUrl(sorted[k].url) = key}
  IN IF hits = {} THEN Undefined
     ELSE DocId((CHOOSE k \in hits : \A h \in hits : h <= k) - 1)

\* normalizedItems.find(...) for a summary: the first item whose comparable
\* URL is that of the summary
FindDoc(sorted, url) ==
  sorted[CHOOSE k \in 1..Len(sorted) :
           /\ NormalizeComparableUrl(sorted[k].url) = NormalizeComparableUrl(url)
           /\ \A h \in 1..(k - 1) :
                NormalizeComparableUrl(sorted[h].url) # NormalizeComparableUrl(url)]

\* extractMarkdownLinks(doc.content, doc.url): title and resolved URL of every
\* markdown link (links into the site are titled "Page", others "Ext")
ExtractMarkdownLinks(content) ==
  [k \in 1..Len(content.links) |->
     [title |-> IF content.links[k].page = 0 THEN "Ext" ELSE "Page", url |-> content.links[k]]]

\* dedupeLinkEntries: the first entry of every `${url}::${title}` key
DedupeLinkEntries(entries) ==
  LET first(k) == \A h \in 1..(k - 1) : <<entries[h].url, entries[h].title>> # <<entries[k].url, entries[k].title>>
      RECURSIVE Kept(_)
      Kept(k) == IF k > Len(entries) THEN <<>>
                 ELSE (IF first(k) THEN <<entries[k]>> ELSE <<>>) \o Kept(k + 1)
  IN Kept(1)

\* docIndexes[summary.id].links, by the position of the summary
DocIndexLinks(sorted, url) ==
  LET deduped == DedupeLinkEntries(ExtractMarkdownLinks(FindDoc(sorted, url).content))
  IN [k \in 1..Len(deduped) |->
        [title |-> deduped[k].title, url |-> deduped[k].url,
         localDocId |-> UrlToId(sorted, NormalizeComparableUrl(deduped[k].url))]]

\* buildPreloadBundle(baseUrl, items): docs, siteIndex.docs and docIndexes
PreloadBundleOf(items) ==
  LET sorted == NormalizedItems(items)
  IN [docs |-> sorted, summaries |-> DocSummaries(sorted, 1, {}),
      docIndexes |-> [k \in 1..Len(sorted) |-> DocIndexLinks(sorted, sorted[k].url)]]

\* the injective maps of 1..n onto itself
Perms(n) == {f \in [1..n -> 1..n] : \A a \in 1..n : \A b \in 1..n : a # b => f[a] # f[b]}

\* buildPreloadBundle is called on an items array and on a reordering of it
BuildPreloadBundles(items, f) ==
  /\ built = <<>>
  /\ LET reordered == [k \in 1..Len(items) |-> items[f[k]]]
     IN built' = <<[items |-> items, bundle |-> PreloadBundleOf(items)],
                   [items |-> reordered, bundle |-> PreloadBundleOf(reordered)]>>
  /\ UNCHANGED <<pruned, notBundleVars>>

\* items whose titles are "Guide", "Guide 2" (the slug of which is guide-2)
\* or without a letter or digit
FileBaseTitles == {"Guide", "Guide 2", "?"}
FileBaseItems ==
  [url : ItemUrls, path : {"/"}, content : [title : FileBaseTitles, links : {<<>>}]]

\* buildPreloadBundle is called on an items array
BuildPreloadBundleOnce(items) ==
  /\ built = <<>>
  /\ built' = <<[items |-> items, bundle |-> PreloadBundleOf(items)]>>
  /\ UNCHANGED <<pruned, notBundleVars>>

NextFileBases ==
  /\ built = <<>>
  /\ \E n \in 1..MaxItems : \E items \in [1..n -> FileBaseItems] :
       /\ \A a \in 1..n : \A b \in 1..n : a # b => items[a] # items[b]
       /\ BuildPreloadBundleOnce(items)

InitBundle == built = <<>> /\ pruned = <<>>

NextBundle ==
  /\ built = <<>>
  /\ \E n \in 1..MaxItems : \E items \in [1..n -> PreloadItems] : \E f \in Perms(n) :
       /\ \A a \in 1..n : \A b \in 1..n : a # b => items[a] # items[b]
       /\ BuildPreloadBundles(items, f)

(***************************************************************************)
(* buildPreloadTargets / normalizeMaxPages                                 *)
(***************************************************************************)
\* longest paths array handed to buildPreloadTargets
MaxPaths == 3

\* a path: "" (empty), an absolute http(s) URL, a path that starts with "/"
\* (rooted), or one that does not (bare); name is the text after the "/"
TargetPath(kind, name) == [kind |-> kind, name |-> name]
EmptyPath == TargetPath("empty", "")
TargetPaths ==
  {EmptyPath, TargetPath("bare", "a"), TargetPath("rooted", "a"), TargetPath("rooted", "b"),
   TargetPath("absolute", "b")}

\* a normalizePath that keeps a bare path as it is
NormalizePathKeeps(path) == path

\* normalizePath: "" and absolute URLs and rooted paths stay, a bare path
\* gets a leading "/"
NormalizePath(path) ==
  IF path.kind = "empty" THEN path
  ELSE IF path.kind = "absolute" THEN path
  ELSE IF path.kind = "rooted" THEN path
  ELSE [path EXCEPT !.kind = "rooted"]

\* dedupePaths: the normalized paths, each at its first occurrence
RECURSIVE DedupePathsFrom(_, _, _)
DedupePathsFrom(paths, k, seen) ==
  IF k > Len(paths) THEN <<>>
  ELSE LET normalized == NormalizePath(paths[k])
       IN IF normalized \in seen THEN DedupePathsFrom(paths, k + 1, seen)
          ELSE <<normalized>> \o DedupePathsFrom(paths, k + 1, seen \cup {normalized})
DedupePaths(paths) == DedupePathsFrom(paths, 1, {})

\* the maxPages values: not a number, NaN, an infinity, or the number num/den
MaxPagesValue(type, kind, num, den) == [type |-> type, kind |-> kind, num |-> num, den |-> den]
MaxPagesValues ==
  {MaxPagesValue("undefined", "", 0, 1), MaxPagesValue("string", "", 0, 1),
   MaxPagesValue("number", "NaN", 0, 1), MaxPagesValue("number", "+Infinity", 0, 1),
   MaxPagesValue("number", "-Infinity", 0, 1)}
    \cup {MaxPagesValue("number", "finite", n, 1) : n \in {-1, 0, 1, 2, 3, 9999}}
    \cup {MaxPagesValue("number", "finite", n, 2) : n \in {1, 5}}

DefaultMaxPages == 200
MaxPagesLimit == 2000

\* a normalizeMaxPages without the lower limit
NormalizeMaxPagesNoFloor(input) ==
  IF input.type # "number" \/ input.kind = "NaN" THEN DefaultMaxPages
  ELSE IF input.kind = "+Infinity" THEN MaxPagesLimit
  ELSE IF input.kind = "-Infinity" THEN 1
  ELSE Min(MaxPagesLimit, Floor(input))

\* normalizeMaxPages: Math.max(1, Math.min(2000, Math.floor(input))), where
\* Math.floor keeps an infinity
NormalizeMaxPages(input) ==
  IF input.type # "number" \/ input.kind = "NaN" THEN DefaultMaxPages
  ELSE IF input.kind = "+Infinity" THEN Max(1, MaxPagesLimit)
  ELSE IF input.kind = "-Infinity" THEN 1
  ELSE Max(1, Min(MaxPagesLimit, Floor(input)))

\* Array.prototype.slice(0, n)
SliceTo(seq, n) == SubSeq(seq, 1, Min(n, Len(seq)))

\* buildPreloadTargets(options)
BuildPreloadTargets(options) ==
  LET normalizedMax == NormalizeMaxPages(options.maxPages)
      merged == IF options.includeBase THEN <<EmptyPath>> \o options.paths ELSE options.paths
      deduped == DedupePaths(merged)
  IN SliceTo(deduped, normalizedMax)

\* a caller calls buildPreloadTargets
BuildPreloadTargetsCall(options) ==
  /\ helperCalls = <<>>
  /\ helperCalls' = <<[fn |-> "buildPreloadTargets", input |-> options,
                       result |-> BuildPreloadTargets(options)]>>
  /\ UNCHANGED notHelperVars

\* a caller calls normalizeMaxPages
NormalizeMaxPagesCall(input) ==
  /\ helperCalls = <<>>
  /\ helperCalls' = <<[fn |-> "normalizeMaxPages", input |-> input,
                       result |-> NormalizeMaxPages(input)]>>
  /\ UNCHANGED notHelperVars

PathArrays == UNION {[1..n -> TargetPaths] : n \in 0..MaxPaths}

NextTargets ==
  /\ helperCalls = <<>>
  /\ \/ \E includeBase \in BOOLEAN, maxPages \in MaxPagesValues, paths \in PathArrays :
          BuildPreloadTargetsCall([includeBase |-> includeBase, maxPages |-> maxPages, paths |-> paths])
     \/ \E input \in MaxPagesValues : NormalizeMaxPagesCall(input)

\* runPreloadJob between discovery and the worker pool: the targets of the job
\* a discovery URL as a path of buildPreloadTargets
UrlPath(url) == TargetPath("absolute", url)

RECURSIVE UrlPaths(_, _)
UrlPaths(urls, k) == IF k > Len(urls) THEN <<>> ELSE <<UrlPath(urls[k])>> \o UrlPaths(urls, k + 1)

\* an orchestrator that hands every discovered URL on
DiscoveredUrlsAll(includeBase, urls) == urls

\* includeBase ? discovery.urls.filter((url) => url !== discovery.urls[0]) : discovery.urls
DiscoveredUrls(includeBase, urls) ==
  IF includeBase THEN SelectSeq(urls, LAMBDA url : url # urls[1]) ELSE urls

\* parsePreloadPaths(body.paths): what users ask for besides the discovery
UserPaths(base) == {<<>>, <<TargetPath("rooted", "a")>>, <<UrlPath(base)>>,
                    <<TargetPath("rooted", "a"), UrlPath(base)>>}

\* buildPreloadTargets({includeBase, maxPages, paths: [...userPaths, ...discoveredUrls]})
JobTargets(userPaths, urls, includeBase, maxPages) ==
  LET discoveredUrls == DiscoveredUrls(includeBase, urls)
  IN BuildPreloadTargets([includeBase |-> includeBase, maxPages |-> maxPages,
                          paths |-> userPaths \o UrlPaths(discoveredUrls, 1)])

\* discovery has returned: runPreloadJob builds its targets
BuildJobTargets(userPaths, includeBase, maxPages) ==
  /\ discPc = "done"
  /\ helperCalls = <<>>
  /\ helperCalls' = <<[fn |-> "runPreloadJob",
                       input |-> [userPaths |-> userPaths, includeBase |-> includeBase,
                                  maxPages |-> maxPages, urls |-> discovered],
                       result |-> JobTargets(userPaths, discovered, includeBase, maxPages)]>>
  /\ UNCHANGED notHelperVars

(***************************************************************************)
(* writeJobSnapshot calls of several jobs and workers on local/jobs.json   *)
(***************************************************************************)
\* most writeJobSnapshot calls made in one run
MaxSnapshotWrites == 4
\* most workers of one job that write a snapshot at the same time
MaxSnapshotWorkers == 1

SnapJobIds == {1, 2}
\* the callers of writeJobSnapshot: <<j, 0>> is the task of job j (enqueue,
\* then runPreloadJob), <<j, w>> its worker w
SnapWriters == SnapJobIds \X (0..MaxSnapshotWorkers)

NoSnapshot == [id |-> 0, status |-> "none", updatedAt |-> 0]
IdleWrite == [pc |-> "idle", snapshot |-> NoSnapshot, next |-> <<>>]

\* updatedAt of the job updated last (0: none yet); new Date().toISOString()
\* of the next update is later
LatestUpdatedAt ==
  CHOOSE t \in 0..MaxSnapshotWrites :
    /\ \A j \in SnapJobIds : snapJobs[j].updatedAt <= t
    /\ t = 0 \/ \E j \in SnapJobIds : snapJobs[j].updatedAt = t

\* the statuses a job's task writes, in turn
StatusAfter(status) ==
  CASE status = "none" -> {"queued"}
    [] status = "queued" -> {"running"}
    [] status = "running" -> {"completed", "failed"}
    [] OTHER -> {}

\* next.sort((a, b) => b.updatedAt.localeCompare(a.updatedAt)): newest first
RECURSIVE InsertEntry(_, _)
InsertEntry(sorted, e) ==
  IF sorted = <<>> THEN <<e>>
  ELSE IF Head(sorted).updatedAt >= e.updatedAt
       THEN <<Head(sorted)>> \o InsertEntry(Tail(sorted), e)
       ELSE <<e>> \o sorted

RECURSIVE SortEntries(_, _)
SortEntries(list, k) ==
  IF k = 0 THEN <<>> ELSE InsertEntry(SortEntries(list, k - 1), list[k])

\* list.filter(id !== snapshot.id), push the snapshot's entry, sort
NextList(list, snapshot) ==
  LET others == SelectSeq(list, LAMBDA entry : entry.id # snapshot.id)
  IN SortEntries(Append(others, snapshot), Len(others) + 1)

\* a caller sets the job's status and updatedAt and calls writeJobSnapshot,
\* which runs up to its await of the job.json write
StartWrite(w, status) ==
  LET snapshot == [id |-> w[1], status |-> status, updatedAt |-> LatestUpdatedAt + 1] IN
    /\ LatestUpdatedAt < MaxSnapshotWrites
    /\ snapWrites[w].pc = "idle"
    /\ snapJobs' = [snapJobs EXCEPT ![w[1]] = [status |-> status, updatedAt |-> snapshot.updatedAt]]
    /\ snapWrites' = [snapWrites EXCEPT ![w] = [pc |-> "job_file", snapshot |-> snapshot, next |-> <<>>]]
    /\ UNCHANGED <<snapJobFiles, jobsList, notListVars>>

\* the task of job j moves the job to its next status and awaits the write:
\* enqueuePreloadJob (queued), runPreloadJob (running, then the terminal
\* status once every worker of the pool has returned)
TaskWrites(j) ==
  /\ \A w \in SnapWriters : w[1] = j => snapWrites[w].pc = "idle"
  /\ \E status \in StatusAfter(snapJobs[j].status) : StartWrite(<<j, 0>>, status)

\* the finally block of a worker of job j: updatedAt, then the write
WorkerWrites(j, k) ==
  /\ k > 0
  /\ snapJobs[j].status = "running"
  /\ snapWrites[<<j, 0>>].pc = "idle"
  /\ StartWrite(<<j, k>>, "running")

\* fs.writeFile(jobFile) is done; fs.readFile(listFile) starts
JobFileWritten(w) ==
  /\ snapWrites[w].pc = "job_file"
  /\ snapJobFiles' = [snapJobFiles EXCEPT ![w[1]] = snapWrites[w].snapshot.status]
  /\ snapWrites' = [snapWrites EXCEPT ![w].pc = "read_list"]
  /\ UNCHANGED <<snapJobs, jobsList, notListVars>>

\* fs.readFile(listFile) and JSON.parse are done, or threw (no file yet, or a
\* file that another call is rewriting): the next list is built and its
\* write starts
ListRead(w, ok) ==
  /\ snapWrites[w].pc = "read_list"
  /\ ok \/ \E v \in SnapWriters : snapWrites[v].pc = "write_list"
  /\ LET list == IF ok THEN jobsList ELSE <<>> IN
       snapWrites' = [snapWrites EXCEPT ![w].pc = "write_list",
                                        ![w].next = NextList(list, snapWrites[w].snapshot)]
  /\ UNCHANGED <<snapJobs, snapJobFiles, jobsList, notListVars>>

\* fs.writeFile(listFile) is done: writeJobSnapshot returns
ListWritten(w) ==
  /\ snapWrites[w].pc = "write_list"
  /\ jobsList' = snapWrites[w].next
  /\ snapWrites' = [snapWrites EXCEPT ![w] = IdleWrite]
  /\ UNCHANGED <<snapJobs, snapJobFiles, notListVars>>

NextSnapshots ==
  \/ \E j \in SnapJobIds : TaskWrites(j)
  \/ \E j \in SnapJobIds, k \in 1..MaxSnapshotWorkers : WorkerWrites(j, k)
  \/ \E w \in SnapWriters : JobFileWritten(w)
  \/ \E w \in SnapWriters, ok \in BOOLEAN : ListRead(w, ok)
  \/ \E w \in SnapWriters : ListWritten(w)

InitList ==
  /\ snapJobs = [j \in SnapJobIds |-> [status |-> "none", updatedAt |-> 0]]
  /\ snapJobFiles = [j \in SnapJobIds |-> "absent"]
  /\ jobsList = <<>>
  /\ snapWrites = [w \in SnapWriters |-> IdleWrite]

(***************************************************************************)
(* searchLocalDocumentation over the stored sites                          *)
(***************************************************************************)
\* most documents stored under ./local/ when a search runs
MaxSearchDocs == 2

\* the query of the searches is "api" (or blank); the titles of the stored
\* documents, lower-cased, in localeCompare order
SearchTitles == <<"api", "my api", "zed">>
TitleIsQuery(title) == title = "api"
TitleStartsWithQuery(title) == title = "api"
TitleIncludesQuery(title) == title \in {"api", "my api"}
TitleRank(title) == CHOOSE k \in 1..Len(SearchTitles) : SearchTitles[k] = title

\* a stored document: its site, its title, and where its content has the
\* query (indexOf: -1 when it has not)
SearchSlugs == <<"a", "b">>
SlugRank(slug) == CHOOSE k \in 1..Len(SearchSlugs) : SearchSlugs[k] = slug
StoredDocs ==
  [slug : {"a", "b"}, title : {"api", "my api", "zed"}, contentIndex : {-1, 0, 400}]

\* options.limit: nothing, or the number num/den
SearchLimits == {NoNumber("undefined"), Num(0, 1), Num(1, 1), Num(5, 2)}

SearchLimitMax == 200
SearchLimitDefault == 50

\* Number.isFinite(options.limit) ? Math.max(1, Math.min(200, Math.floor(limit))) : 50
NormalizeLimit(x) ==
  IF x.type = "number" /\ x.finite
  THEN Max(1, Min(SearchLimitMax, Floor(x)))
  ELSE SearchLimitDefault

\* computeSearchScore
ComputeSearchScore(title, contentIndex) ==
  (IF TitleIsQuery(title) THEN 120 ELSE 0)
    + (IF TitleStartsWithQuery(title) THEN 80 ELSE 0)
    + (IF TitleIncludesQuery(title) THEN 40 ELSE 0)
    + (IF contentIndex >= 0 THEN 20 + Max(0, 20 - (contentIndex \div 400)) ELSE 0)

\* the comparator of results.sort: score descending, slug, title
SearchCompare(a, b) ==
  IF b.score # a.score THEN b.score - a.score
  ELSE IF a.slug # b.slug THEN SlugRank(a.slug) - SlugRank(b.slug)
  ELSE TitleRank(a.title) - TitleRank(b.title)

RECURSIVE InsertResult(_, _)
InsertResult(sorted, x) ==
  IF sorted = <<>> THEN <<x>>
  ELSE IF SearchCompare(Head(sorted), x) <= 0
       THEN <<Head(sorted)>> \o InsertResult(Tail(sorted), x)
       ELSE <<x>> \o sorted

RECURSIVE SortResults(_, _)
SortResults(results, k) ==
  IF k = 0 THEN <<>> ELSE InsertResult(SortResults(results, k - 1), results[k])

\* the loop over one site: a result for every document that matches
RECURSIVE ResultsOfSlug(_, _, _)
ResultsOfSlug(docs, slug, k) ==
  IF k > Len(docs) THEN <<>>
  ELSE LET doc == docs[k]
           titleMatch == TitleIncludesQuery(doc.title)
           contentMatch == doc.contentIndex >= 0
       IN (IF doc.slug = slug /\ (titleMatch \/ contentMatch)
           THEN <<[slug |-> slug, docId |-> k, title |-> doc.title,
                   score |-> ComputeSearchScore(doc.title, doc.contentIndex)]>>
           ELSE <<>>) \o ResultsOfSlug(docs, slug, k + 1)

RECURSIVE ResultsOfSlugs(_, _, _)
ResultsOfSlugs(docs, slugs, k) ==
  IF k > Len(slugs) THEN <<>>
  ELSE ResultsOfSlug(docs, slugs[k], 1) \o ResultsOfSlugs(docs, slugs, k + 1)

\* a search that cuts the matches to the limit before it sorts them
SliceThenSort(results, limit) ==
  SortResults(SliceTo(results, limit), Len(SliceTo(results, limit)))

\* results.sort(...); results.slice(0, limit)
SortThenSlice(results, limit) == SliceTo(SortResults(results, Len(results)), limit)

\* searchLocalDocumentation({query, slug, limit}) over the stored documents
\* (docs lists them in the order of their site-index.json); slug "" is no
\* slug option: every site of listLocalSlugs, sorted by slug
SearchLocalDocumentation(docs, blank, slug, limit) ==
  IF blank THEN [totalResults |-> 0, results |-> <<>>]
  ELSE LET targetSlugs == IF slug # "" THEN <<slug>> ELSE SearchSlugs
           results == ResultsOfSlugs(docs, targetSlugs, 1)
       IN [totalResults |-> Len(results),
           results |-> SortThenSlice(results, NormalizeLimit(limit))]

SearchCall(docs, blank, slug, limit) ==
  /\ helperCalls = <<>>
  /\ helperCalls' = <<[fn |-> "searchLocalDocumentation",
                       input |-> [docs |-> docs, blank |-> blank, slug |-> slug, limit |-> limit],
                       result |-> SearchLocalDocumentation(docs, blank, slug, limit)]>>
  /\ UNCHANGED notHelperVars

NextSearch ==
  /\ helperCalls = <<>>
  /\ \E n \in 0..MaxSearchDocs : \E docs \in [1..n -> StoredDocs] :
       \E blank \in BOOLEAN, slug \in {"", "a"}, limit \in SearchLimits :
         SearchCall(docs, blank, slug, limit)

(***************************************************************************)
(* prunePreloadJobs on tables of up to MaxTable jobs                       *)
(***************************************************************************)
\* largest job table prunePreloadJobs is called on
MaxTable == 27
\* most running jobs in such a table, unless all its jobs are running
MaxRunning == 2

\* the sets of running jobs of a table of n jobs
RECURSIVE SetsUpTo(_, _)
SetsUpTo(n, m) ==
  IF m = 0 THEN {{}}
  ELSE LET smaller == SetsUpTo(n, m - 1)
       IN smaller \cup {R \cup {j} : R \in smaller, j \in 1..n}

RunningSets(n) == SetsUpTo(n, MaxRunning) \cup {1..n}

\* prunePreloadJobs is called with n jobs in the table, named 1..n from the
\* oldest updatedAt to the newest; the jobs in running are running, the
\* others completed; the nOld oldest jobs are older than ttlMs
PrunePreloadJobsCall(n, running, nOld) ==
  /\ pruned = <<>>
  /\ LET status == [j \in 1..n |-> IF j \in running THEN "running" ELSE "completed"]
         order == [k \in 1..n |-> k]
     IN pruned' = <<[status |-> status, old |-> 1..nOld,
                     left |-> PruneTable(status, 1..n, order, 1..nOld)]>>
  /\ UNCHANGED <<built, notBundleVars>>

NextPrune ==
  /\ pruned = <<>>
  /\ \E n \in 0..MaxTable : \E running \in RunningSets(n) : \E nOld \in 0..n :
       PrunePreloadJobsCall(n, running, nOld)

InitHost ==
  /\ now = StartTime
  /\ hostLocks = [h \in Hosts |-> 0]
  /\ hostLastRequestAt = [h \in Hosts |-> 0]
  /\ acqs = <<>>
  /\ grantLog = <<>>

InitRequest == enqueueErrors = {}

InitHelper == helperCalls = <<>>

Init ==
  /\ InitHost /\ InitJob /\ InitStore /\ InitDisc /\ InitBundle /\ InitRequest /\ InitHelper
  /\ InitList

NextHost ==
  \/ \E h \in Hosts, m \in Intervals : AcquireHost(h, m)
  \/ \E i \in AcqIds : Gate(i)
  \/ \E i \in AcqIds : Wake(i)
  \/ \E i \in AcqIds : FetchSettle(i)
  \/ TickSleep
  \/ TickIdle

SpecHost == Init /\ [][NextHost]_vars

\* the callers of one host, with the outcome of every network call told apart
NextFetch ==
  \/ \E m \in Intervals : AcquireHost("a", m)
  \/ \E i \in AcqIds : Gate(i)
  \/ \E i \in AcqIds : Wake(i)
  \/ \E i \in AcqIds, outcome \in FetchOutcomes : FetchSettles(i, outcome)
  \/ TickSleep
  \/ TickIdle

SpecFetch == Init /\ [][NextFetch]_vars

NextJob ==
  \/ \E b \in BaseUrls, c \in 1..MaxConcurrency : Enqueue(b, c)
  \/ \E j \in JobIds, ok \in BOOLEAN : EnqueueWritten(j, ok)
  \/ \E j \in JobIds, ok \in BOOLEAN : RunWritten(j, ok)
  \/ \E j \in JobIds, d \in 1..MaxTargets, n \in 1..MaxTargets : DiscoverDone(j, d, n)
  \/ \E j \in JobIds, ok \in BOOLEAN, m \in Intervals : SessionDone(j, ok, m)
  \/ \E j \in JobIds, w \in WorkerIds, ok \in BOOLEAN : WorkerFetchSettle(j, w, ok)
  \/ \E j \in JobIds, w \in WorkerIds, ok \in BOOLEAN : WorkerScratchDone(j, w, ok)
  \/ \E j \in JobIds, w \in WorkerIds, ok \in BOOLEAN, m \in Intervals : WorkerSnapshotWritten(j, w, ok, m)
  \/ \E j \in JobIds : PoolDone(j)
  \/ \E j \in JobIds, ok \in BOOLEAN : BundleWritten(j, ok)
  \/ \E j \in JobIds, ok \in BOOLEAN : Finalized(j, ok)
  \/ \E j \in JobIds, ok \in BOOLEAN : TerminalWritten(j, ok)
  \/ \E k \in 1..Cardinality(JobIds) : TtlElapse(k)
  \/ \E j \in JobIds : GetPreloadJobStatus(j)
  \/ \E i \in AcqIds : Gate(i)
  \/ \E i \in AcqIds : Wake(i)
  \/ TickSleep

SpecJob == Init /\ [][NextJob]_vars

\* the job manager while no snapshot write fails, with restarts
NextJobWritesOk ==
  \/ \E b \in BaseUrls, c \in 1..MaxConcurrency : Enqueue(b, c)
  \/ \E j \in JobIds : EnqueueWritten(j, TRUE)
  \/ \E j \in JobIds : RunWritten(j, TRUE)
  \/ \E j \in JobIds, d \in 1..MaxTargets, n \in 1..MaxTargets : DiscoverDone(j, d, n)
  \/ \E j \in JobIds, ok \in BOOLEAN, m \in Intervals : SessionDone(j, ok, m)
  \/ \E j \in JobIds, w \in WorkerIds, ok \in BOOLEAN : WorkerFetchSettle(j, w, ok)
  \/ \E j \in JobIds, w \in WorkerIds, ok \in BOOLEAN : WorkerScratchDone(j, w, ok)
  \/ \E j \in JobIds, w \in WorkerIds, m \in Intervals : WorkerSnapshotWritten(j, w, TRUE, m)
  \/ \E j \in JobIds : PoolDone(j)
  \/ \E j \in JobIds, ok \in BOOLEAN : BundleWritten(j, ok)
  \/ \E j \in JobIds, ok \in BOOLEAN : Finalized(j, ok)
  \/ \E j \in JobIds : TerminalWritten(j, TRUE)
  \/ \E k \in 1..Cardinality(JobIds) : TtlElapse(k)
  \/ \E j \in JobIds : GetPreloadJobStatus(j)
  \/ \E i \in AcqIds : Gate(i)
  \/ \E i \in AcqIds : Wake(i)
  \/ TickSleep
  \/ Restart

SpecJobWritesOk == Init /\ [][NextJobWritesOk]_vars

\* the job manager with the requests as they come in (the snapshot writes
\* succeed: SpecJob has their failures)
NextEnqueue ==
  \/ \E body \in Bodies : EnqueuePreloadJob(body)
  \/ \E j \in JobIds : EnqueueWritten(j, TRUE)
  \/ \E j \in JobIds : RunWritten(j, TRUE)
  \/ \E j \in JobIds, d \in 1..MaxTargets, n \in 1..MaxTargets : DiscoverDone(j, d, n)
  \/ \E j \in JobIds, ok \in BOOLEAN, m \in Intervals : SessionDone(j, ok, m)
  \/ \E j \in JobIds, w \in WorkerIds, ok \in BOOLEAN : WorkerFetchSettle(j, w, ok)
  \/ \E j \in JobIds, w \in WorkerIds, ok \in BOOLEAN : WorkerScratchDone(j, w, ok)
  \/ \E j \in JobIds, w \in WorkerIds, m \in Intervals : WorkerSnapshotWritten(j, w, TRUE, m)
  \/ \E j \in JobIds : PoolDone(j)
  \/ \E j \in JobIds, ok \in BOOLEAN : BundleWritten(j, ok)
  \/ \E j \in JobIds, ok \in BOOLEAN : Finalized(j, ok)
  \/ \E j \in JobIds : TerminalWritten(j, TRUE)
  \/ \E k \in 1..Cardinality(JobIds) : TtlElapse(k)
  \/ \E j \in JobIds : GetPreloadJobStatus(j)
  \/ \E i \in AcqIds : Gate(i)
  \/ \E i \in AcqIds : Wake(i)
  \/ TickSleep

SpecEnqueue == Init /\ [][NextEnqueue]_vars

SpecStore == Init /\ [][NextStore]_vars

SpecFileBases == Init /\ [][NextFileBases]_vars

SpecConcurrentWrites == Init /\ [][NextConcurrentWrites]_vars

SpecDisc == Init /\ [][NextDisc]_vars

SpecBundle == Init /\ [][NextBundle]_vars

SpecPrune == Init /\ [][NextPrune]_vars

SpecTargets == Init /\ [][NextTargets]_vars

SpecSearch == Init /\ [][NextSearch]_vars

SpecCrawl == Init /\ [][NextCrawl]_vars

SpecDiagnostics == Init /\ [][NextDiagnostics]_vars

\* a discovery run and the targets runPreloadJob builds from its result
NextJobTargets ==
  \/ NextDisc
  \/ \E userPaths \in UserPaths(discOpts.base), includeBase \in BOOLEAN,
        maxPages \in {MaxPagesValue("undefined", "", 0, 1), MaxPagesValue("number", "finite", 2, 1)} :
       BuildJobTargets(userPaths, includeBase, maxPages)

SpecJobTargets == Init /\ [][NextJobTargets]_vars

SpecSnapshots == Init /\ [][NextSnapshots]_vars

\* Scheduling of the host chain: promise callbacks and timers run, and the
\* network call on host "a" settles (its timeout aborts it).  Nothing is
\* assumed about calls on other hosts: they may hold their lock forever.
FetchSettleHost(h) == \E i \in AcqIds : acqs[i].host = h /\ FetchSettle(i)

LiveSpecHostA ==
  /\ Init /\ [][NextHost]_vars
  /\ \A i \in 1..MaxAcq : WF_vars(Gate(i)) /\ WF_vars(Wake(i))
  /\ WF_vars(TickSleep)
  /\ WF_vars(FetchSettleHost("a"))

Granted(i) == i \in AcqIds /\ acqs[i].st \in {"granted", "released"}
Held(i) == i \in AcqIds /\ acqs[i].st = "granted"

\* positions p < k of grantLog that are consecutive grants of one host
ConsecutiveGrants(p, k) ==
  /\ p < k
  /\ acqs[grantLog[p]].host = acqs[grantLog[k]].host
  /\ \A q \in (p+1)..(k-1) : acqs[grantLog[q]].host # acqs[grantLog[k]].host

\* C3: an acquisition is granted at least its own minIntervalMs after the
\* previous acquisition of the same host was granted.
C3_MinIntervalBetweenGrants ==
  \A k \in 1..Len(grantLog) : \A p \in 1..Len(grantLog) :
    ConsecutiveGrants(p, k) =>
      acqs[grantLog[k]].grantedAt - acqs[grantLog[p]].grantedAt >= acqs[grantLog[k]].minIntervalMs

\* a second grant on a host that had to sleep for its interval
C3_Witness ==
  \E k \in 1..Len(grantLog) : \E p \in 1..Len(grantLog) :
    /\ ConsecutiveGrants(p, k)
    /\ acqs[grantLog[k]].wakeAt > 0
    /\ acqs[grantLog[k]].grantedAt = acqs[grantLog[p]].grantedAt + acqs[grantLog[k]].minIntervalMs

\* C4: acquisitions of one host are granted in the order acquireHost was called.
C4_GrantsInCallOrder ==
  /\ \A p \in 1..Len(grantLog) : \A k \in 1..Len(grantLog) :
       (p < k /\ acqs[grantLog[p]].host = acqs[grantLog[k]].host) => grantLog[p] < grantLog[k]
  /\ \A i \in AcqIds : \A j \in AcqIds :
       (j < i /\ acqs[j].host = acqs[i].host /\ Granted(i)) => Granted(j)

\* three concurrent callers of one host: two granted in turn, the third queued
C4_Witness ==
  \E i \in AcqIds : \E j \in AcqIds : \E k \in AcqIds :
    /\ i < j /\ j < k
    /\ acqs[i].host = acqs[j].host /\ acqs[j].host = acqs[k].host
    /\ acqs[i].st = "released" /\ Held(j) /\ acqs[k].st = "waiting"

\* C5: an acquisition for host "a" is granted whatever happens on other
\* hosts, also when another host's lock is held and never released.
C5_HostAGrantedRegardlessOfOthers ==
  \A i \in 1..MaxAcq :
    (i \in AcqIds /\ acqs[i].host = "a") ~> Granted(i)

\* host "b" is held, and a later call for host "a" has been granted meanwhile
C5_Witness ==
  \E i \in AcqIds : \E j \in AcqIds :
    /\ i < j
    /\ acqs[i].host = "b" /\ Held(i)
    /\ acqs[j].host = "a" /\ Granted(j)

\* C24: at any time at most one fetchWithRateLimit call per hostname is
\* between its host-lock grant and its release, however many callers fetch
\* from that host concurrently.
C24_OneHolderPerHost ==
  \A i \in AcqIds : \A j \in AcqIds :
    (Held(i) /\ Held(j) /\ acqs[i].host = acqs[j].host) => i = j

\* three concurrent callers of one host: the second holds the lock after the
\* first released it, the third is still chained behind the second
C24_Witness ==
  \E i \in AcqIds : \E j \in AcqIds : \E k \in AcqIds :
    /\ acqs[i].host = acqs[j].host /\ acqs[j].host = acqs[k].host
    /\ acqs[j].previous = i /\ acqs[k].previous = j
    /\ acqs[i].st = "released" /\ Held(j) /\ acqs[k].st = "waiting"
    /\ acqs[j].grantedAt > acqs[i].grantedAt

\* the calls whose network call has ended, with how it ended
SettledCalls == {k \in 1..Len(helperCalls) : helperCalls[k].fn = "fetchWithRateLimit"}
Failure(outcome) == outcome # "response"

\* C25: fetchWithRateLimit releases the host lock on every outcome of the
\* network call, and the host's last-request time was advanced at grant time
\* also when the call fails: a failed call blocks no later call of its host,
\* and the next one is granted no sooner than its minIntervalMs after the
\* failed one's grant.
C25_ReleasedOnEveryOutcome ==
  \A c \in SettledCalls :
    LET i == helperCalls[c].input IN
      /\ acqs[i].st = "released"
      /\ hostLastRequestAt[acqs[i].host] >= acqs[i].grantedAt
      /\ \A j \in AcqIds :
           acqs[j].previous = i =>
             /\ LockResolved(acqs[j].previous)
             /\ Granted(j) => acqs[j].grantedAt - acqs[i].grantedAt >= acqs[j].minIntervalMs

\* a call that timed out, and the next call of its host granted exactly its
\* interval after the failed one's grant
C25_Witness ==
  \E c \in SettledCalls : \E j \in AcqIds :
    /\ helperCalls[c].result = "timeout abort"
    /\ acqs[j].previous = helperCalls[c].input
    /\ Held(j)
    /\ acqs[j].wakeAt > 0
    /\ acqs[j].grantedAt = acqs[helperCalls[c].input].grantedAt + acqs[j].minIntervalMs

(***************************************************************************)
(* Claims about the job orchestrator                                       *)
(***************************************************************************)
\* Scheduling of a job: every awaited operation of runPreloadJob and of its
\* workers settles, promise callbacks and timers of the host chain run.
LiveSpecJob ==
  /\ Init /\ [][NextJob]_vars
  /\ \A j \in JobIds :
       /\ WF_vars(\E ok \in BOOLEAN : EnqueueWritten(j, ok))
       /\ WF_vars(\E ok \in BOOLEAN : RunWritten(j, ok))
       /\ WF_vars(\E d \in 1..MaxTargets, n \in 1..MaxTargets : DiscoverDone(j, d, n))
       /\ WF_vars(\E ok \in BOOLEAN, m \in Intervals : SessionDone(j, ok, m))
       /\ \A w \in WorkerIds :
            /\ WF_vars(\E ok \in BOOLEAN : WorkerFetchSettle(j, w, ok))
            /\ WF_vars(\E ok \in BOOLEAN : WorkerScratchDone(j, w, ok))
            /\ WF_vars(\E ok \in BOOLEAN, m \in Intervals : WorkerSnapshotWritten(j, w, ok, m))
       /\ WF_vars(PoolDone(j))
       /\ WF_vars(\E ok \in BOOLEAN : BundleWritten(j, ok))
       /\ WF_vars(\E ok \in BOOLEAN : Finalized(j, ok))
       /\ WF_vars(\E ok \in BOOLEAN : TerminalWritten(j, ok))
  /\ \A i \in 1..MaxTargets : WF_vars(Gate(i)) /\ WF_vars(Wake(i))
  /\ WF_vars(TickSleep)

Terminal == {"completed", "failed"}

\* the status path of a job object
InMemoryStep(a, b) ==
  \/ a = b
  \/ a = "none" /\ b = "queued"
  \/ a = "queued" /\ b = "running"
  \/ a = "running" /\ b \in Terminal

\* the same path for the status held by job.json (no file yet: any first status)
PersistedPathStep(a, b) ==
  \/ a = b
  \/ a = "absent"
  \/ a = "queued" /\ b = "running"
  \/ a = "running" /\ b \in Terminal

StatusRank(a) == CASE a = "absent" -> 0 [] a = "queued" -> 1 [] a = "running" -> 2 [] OTHER -> 3

\* job.json only moves forward along the path, and a terminal status stays
PersistedForwardStep(a, b) == a = b \/ StatusRank(a) < StatusRank(b)

\* C1 as stated: in memory and in job.json the status changes only along
\* queued -> running -> completed | failed, never from queued directly to a
\* terminal status, and a terminal status never changes.
C1_StatusPathInMemoryAndPersisted ==
  [][\A j \in JobIds : /\ InMemoryStep(job[j].status, job'[j].status)
                        /\ PersistedPathStep(jobFile[j].status, jobFile'[j].status)]_vars

\* C1 as amended: in memory the status changes only along queued -> running ->
\* completed | failed and a terminal status never changes; the status in
\* job.json only moves forward along that path and stays once terminal, but it
\* can skip running (when the write of the running snapshot failed).
C1_StatusPathAmended ==
  [][\A j \in JobIds : /\ InMemoryStep(job[j].status, job'[j].status)
                        /\ PersistedForwardStep(jobFile[j].status, jobFile'[j].status)]_vars

\* a job that went the whole path, in memory and on disk
C1_Witness ==
  \E j \in JobIds : /\ task[j].pc = "done"
                     /\ job[j].status \in Terminal
                     /\ jobFile[j].status = job[j].status

\* the pool of job j ran and all its workers have left their loop
PoolOver(j) ==
  /\ \A w \in WorkerIds : workers[j][w].pc \in {"done", "unused"}
  /\ \E w \in WorkerIds : workers[j][w].pc = "done"

\* C2: every index of the target list is claimed by exactly one worker: none
\* is taken twice, and once the pool is over none was skipped.
C2_EveryTargetClaimedOnce ==
  \A j \in JobIds :
    /\ \A t \in DOMAIN task[j].claims : task[j].claims[t] <= 1
    /\ \A w1 \in WorkerIds : \A w2 \in WorkerIds :
         (w1 # w2 /\ workers[j][w1].pc \in {"fetch", "scratch", "snap"}
                  /\ workers[j][w2].pc \in {"fetch", "scratch", "snap"})
           => workers[j][w1].current # workers[j][w2].current
    /\ PoolOver(j) => \A t \in DOMAIN task[j].claims : task[j].claims[t] = 1

\* a pool of two workers is over after working on the largest target list
C2_Witness ==
  \E j \in JobIds : /\ PoolOver(j)
                     /\ task[j].targets = MaxTargets
                     /\ \A w \in 1..2 : workers[j][w].pc = "done"

\* C6: a job that finished without any target fetched and converted is failed
\* with a non-empty error, and a completed job has at least one fetched page.
C6_NothingFetchedMeansFailed ==
  \A j \in JobIds :
    /\ (task[j].pc = "done" /\ Len(task[j].items) = 0) =>
         (job[j].status = "failed" /\ job[j].error # "")
    /\ job[j].status = "completed" => Len(task[j].items) > 0

\* every target of a job failed, and the job is over
C6_Witness ==
  \E j \in JobIds : /\ task[j].pc = "done"
                     /\ Len(task[j].items) = 0
                     /\ Len(task[j].errors) = task[j].targets
                     /\ task[j].targets > 0

\* C7: the failure of one target appends to the error list and adds one to
\* progress.failed, the job stays running, and when the pool is over every
\* target was taken.
C7_TargetFailureDoesNotAbort ==
  [][\A j \in JobIds :
       /\ \A w \in WorkerIds :
            (workers[j][w].pc \in {"fetch", "scratch"} /\ workers'[j][w].pc = "snap"
               /\ workers'[j][w].outcome \in {"fetch failed", "write failed"}) =>
              /\ task'[j].errors = Append(task[j].errors, workers[j][w].current)
              /\ job'[j].failed = job[j].failed + 1
              /\ job'[j].completed = job[j].completed
              /\ job'[j].status = "running"
              /\ task'[j].pc = "pool"
       /\ (PoolOver(j) => \A t \in DOMAIN task[j].claims : task[j].claims[t] = 1)'
    ]_vars

\* a job completed although one of its targets failed
C7_Witness ==
  \E j \in JobIds : /\ job[j].status = "completed"
                     /\ Len(task[j].errors) > 0
                     /\ job[j].failed > 0

\* C8: a job that has entered running reaches completed or failed.
C8_RunningJobTerminates ==
  \A j \in JobIds : (job[j].status = "running") ~> (job[j].status \in Terminal)

\* a job is over after one of its workers had to wait for the host lock of another
C8_Witness ==
  \E j \in JobIds : \E i \in AcqIds :
    /\ task[j].pc = "done"
    /\ acqs[i].owner[1] = j
    /\ acqs[i].previous # 0
    /\ acqs[i].st = "released"

\* C26: every job for which enqueuePreloadJob returned a jobId leaves
\* queued: no prunePreloadJobs of another call, also one that runs while the
\* queued snapshot is being written, removes the job from the in-memory
\* table before its task starts.
C26_QueuedJobStarts ==
  /\ [](\A j \in JobIds : task[j].pc = "enq_write" => j \in preloadJobs)
  /\ \A j \in JobIds : (job[j].status = "queued") ~> (job[j].status # "queued")

\* C28: when a job completes, result.preloaded + result.failed equals
\* progress.total and result.preloaded equals progress.completed: every
\* target is counted once in the result, as preloaded or as failed, also
\* when the scratch-output write of a target fails.
C28_ResultCountsEveryTargetOnce ==
  \A j \in JobIds :
    job[j].status = "completed" =>
      /\ job[j].result.preloaded + job[j].result.failed = job[j].total
      /\ job[j].result.preloaded = job[j].completed

\* C29: in every reachable state, if getPreloadJobStatus(id) reports
\* hasResult = true then getPreloadJobResult(id), evaluated in the same
\* state, returns state completed with the result, also when the job has
\* been evicted from memory and the status answer comes from job.json.
C29_HasResultMeansResultIsServed ==
  \A j \in JobIds :
    GetPreloadJobStatusAnswer(j).hasResult => GetPreloadJobResultAnswer(j) = "completed"

\* the entries of jobs.json for job j
ListEntries(j) == {k \in 1..Len(jobsList) : jobsList[k].id = j}

\* C27: when several snapshot writes run concurrently (workers of one job,
\* or tasks of different jobs), then after all of them have finished
\* jobs.json has exactly one entry for every job id that was written,
\* carrying that job's latest status: no entry is lost or reverted by
\* another writer's read-modify-write.
C27_JobsListCompleteAfterWrites ==
  (\A w \in SnapWriters : snapWrites[w].pc = "idle") =>
    \A j \in SnapJobIds :
      snapJobs[j].status # "none" =>
        /\ Cardinality(ListEntries(j)) = 1
        /\ \A k \in ListEntries(j) : jobsList[k].status = snapJobs[j].status

(***************************************************************************)
(* Claims about the local store                                            *)
(***************************************************************************)
\* C9: site-index.json still lists every document that an earlier bundle
\* write stored, also when a later batch for the same base URL lacks it.
C9_SiteIndexKeepsEarlierDocs ==
  localOutput.enabled => listedBefore \subseteq ListedUrls(siteIndexFile)

(***************************************************************************)
(* Claims about discovery                                                  *)
(***************************************************************************)
\* C10: in every state of a discovery run the discovered set holds at most
\* maxDiscover URLs, so the result never has more than maxDiscover URLs.
C10_DiscoveredAtMostMaxDiscover ==
  discPc # "idle" => Len(discovered) <= discOpts.maxDiscover

\* a run that stopped at the cap with pages still in the frontier
C10_Witness ==
  /\ discPc = "done"
  /\ discOpts.maxDiscover >= 2
  /\ Len(discovered) = discOpts.maxDiscover
  /\ Len(queue) > 0

\* the filters a URL has to pass to be admitted by a discovery run
PassesFilters(url) ==
  /\ SchemeOf(url) \in {"http:", "https:"}
  /\ discOpts.sameHostOnly => HostnameOf(url) = HostnameOf(discOpts.base)
  /\ ~HasNonDocExtension(url)

\* C11 as stated: every URL of the result of a discovery run is http(s), has
\* the base URL's hostname when sameHostOnly is on, and has no blocklisted
\* extension.
C11_ResultPassesFilters ==
  discPc = "done" => \A u \in Range(discovered) : PassesFilters(u)

\* C11 as amended: every URL of the result other than the base URL itself
\* (which seeds the set unfiltered) passes the three filters.
C11_ResultPassesFiltersButBase ==
  discPc = "done" => \A u \in Range(discovered) \ {discOpts.base} : PassesFilters(u)

\* a same-host run that used indexes and links and found pages beyond the base
C11_Witness ==
  /\ discPc = "done"
  /\ discOpts.sameHostOnly /\ discOpts.includeIndexes /\ discOpts.includeLinks
  /\ Len(discovered) >= 3
  /\ seenCrawl # {}

\* C30: the link crawl of discoverDocumentationUrls fetches each URL at
\* most once per discovery run, also a URL that several pages link to.
C30_CrawlFetchesEachUrlOnce ==
  \A p \in 1..Len(attempted) : \A q \in 1..Len(attempted) :
    attempted[p] = attempted[q] => p = q

\* a crawl that fetched the base page and the one page it links to, whose
\* own links (back to pages already known) added nothing to the frontier
C30_Witness ==
  /\ discPc = "links"
  /\ Len(attempted) = 2
  /\ Len(discovered) = 2
  /\ queue = <<>>
  /\ Len(discovered) < discOpts.maxDiscover
  /\ discOpts.maxDepth >= 2

\* a pass of the crawl loop that fetches the page at the head of the queue
CrawlFetches == discPc = "links" /\ attempted' # attempted

\* C31: the link crawl fetches only pages whose depth from the base URL is
\* at most maxDepth; links found on a page at depth maxDepth may be added to
\* the discovered set but are never enqueued or fetched.
C31_CrawlStaysWithinMaxDepth ==
  /\ [](\A k \in 1..Len(queue) : queue[k].depth <= discOpts.maxDepth)
  /\ [][CrawlFetches =>
          /\ Head(queue).depth <= discOpts.maxDepth
          /\ Head(queue).depth = discOpts.maxDepth => queue' = Tail(queue)]_vars

\* a crawl with maxDepth 1: the base page gave one link, the page behind it,
\* at depth 1, was fetched and gave a third URL, which was not enqueued
C31_Witness ==
  /\ discPc = "links"
  /\ ~discOpts.includeIndexes
  /\ discOpts.maxDepth = 1
  /\ Len(attempted) = 2
  /\ Len(discovered) = 3
  /\ queue = <<>>

\* C32: a URL that sitemap or search-index discovery already put into the
\* discovered set is still enqueued for a visit when the crawl finds a link
\* to it on a page at depth < maxDepth: being discovered does not block it.
C32_DiscoveredUrlStillEnqueued ==
  [][(CrawlFetches /\ Head(queue).depth < discOpts.maxDepth) =>
       \A k \in DOMAIN helperCalls'[1].result :
         LET link == helperCalls'[1].result[k] IN
           (link \in Range(discovered) /\ link \notin seenCrawl') =>
             \E q \in 1..Len(queue') : queue'[q].url = link]_vars

\* the https:// form of a base URL given without a scheme, fragment removed
HttpsForm(baseUrl) == IF baseUrl = "a/docs#top" THEN "https://a/docs" ELSE baseUrl

\* C34: discoverDocumentationUrls given a base URL without a scheme seeds
\* the discovered set with its https:// form with the fragment removed, and
\* discovery proceeds from that seed.
C34_SchemelessBaseSeedsHttps ==
  (discPc # "idle" /\ discOpts.baseUrl = "a/docs#top") =>
    /\ discPc # "threw"
    /\ Len(discovered) >= 1
    /\ discovered[1] = HttpsForm(discOpts.baseUrl)

\* a step of discovery that attempts a source, and the diagnostics it leaves
SourceAttempted == helperCalls' # helperCalls
LastAttempt == helperCalls'[1]

\* discovery goes on after the attempt: the index phase with the next
\* source, the crawl with the rest of the frontier
DiscoveryGoesOn ==
  /\ discPc' = discPc
  /\ discPc = "indexes" => discPos' = NextSource(discPos)
  /\ (discPc = "links" /\ LastAttempt.input.outcome # "parsed") => queue' = Tail(queue)

\* C35 as stated: a fetch or parse failure of one discovery source is
\* recorded in diagnostics.errors and discovery continues with the remaining
\* sources and pages; it never makes discoverDocumentationUrls throw, and
\* every attempted URL ends up in diagnostics.fetched or diagnostics.errors.
C35_SourceFailuresRecorded ==
  [][SourceAttempted =>
       /\ LastAttempt.input.outcome \in {"fetch failed", "unparsable"} => LastAttempt.result.errors
       /\ DiscoveryGoesOn
       /\ LastAttempt.result.attempted =>
            (LastAttempt.result.fetched \/ LastAttempt.result.errors)]_vars

\* C35 as amended: a fetch failure is recorded in diagnostics.errors; a
\* source whose text cannot be parsed is recorded as fetched and yields no
\* URLs; discovery continues in both cases, and every attempted URL ends up
\* in diagnostics.fetched or diagnostics.errors.
C35_FetchFailuresRecorded ==
  [][SourceAttempted =>
       /\ LastAttempt.input.outcome = "fetch failed" => LastAttempt.result.errors
       /\ LastAttempt.input.outcome = "unparsable" =>
            (LastAttempt.result.fetched /\ discovered' = discovered)
       /\ DiscoveryGoesOn
       /\ LastAttempt.result.attempted =>
            (LastAttempt.result.fetched \/ LastAttempt.result.errors)]_vars

\* the fetch of the second page of a crawl failed and was recorded in errors,
\* in a run that also read the index sources: the crawl is still in its loop
C35_Witness ==
  /\ discPc = "links"
  /\ discOpts.includeIndexes
  /\ Len(attempted) = 2
  /\ helperCalls # <<>>
  /\ helperCalls[1].input.outcome = "fetch failed"
  /\ helperCalls[1].input.source.url = attempted[2]
  /\ helperCalls[1].result.errors

\* the calls in which runPreloadJob built its targets
JobTargetCalls == {k \in 1..Len(helperCalls) : helperCalls[k].fn = "runPreloadJob"}

BaseFirstInResult == discPc = "done" => discovered[1] = discOpts.base

\* C33 as stated: the normalized base URL is the first element of the
\* discovery result, and with includeBase the base page is in the job's
\* target list only once, as the empty path at index 0.
C33_BasePageTargetedOnce ==
  /\ BaseFirstInResult
  /\ \A c \in JobTargetCalls :
       LET targets == helperCalls[c].result IN
         helperCalls[c].input.includeBase =>
           /\ targets[1] = EmptyPath
           /\ \A k \in 2..Len(targets) : targets[k] # UrlPath(discOpts.base)

\* C33 as amended: with includeBase the empty path is at index 0 and the
\* base URL itself is a target only where a user-supplied path names it.
C33_BasePageNotTargetedByDiscovery ==
  /\ BaseFirstInResult
  /\ \A c \in JobTargetCalls :
       LET targets == helperCalls[c].result IN
         helperCalls[c].input.includeBase =>
           /\ targets[1] = EmptyPath
           /\ \A k \in 2..Len(targets) :
                targets[k] = UrlPath(discOpts.base) =>
                  \E u \in DOMAIN helperCalls[c].input.userPaths :
                    helperCalls[c].input.userPaths[u] = targets[k]

\* a job with includeBase whose discovery found two pages besides the base:
\* its targets are the empty path, the user's path and the two pages
C33_Witness ==
  \E c \in JobTargetCalls :
    /\ helperCalls[c].input.includeBase
    /\ helperCalls[c].input.userPaths = <<TargetPath("rooted", "a")>>
    /\ Len(helperCalls[c].input.urls) = 3
    /\ Len(helperCalls[c].result) = 4

(***************************************************************************)
(* Claims about buildPreloadBundle                                         *)
(***************************************************************************)
\* the id a bundle gives to an item: the id of the summary at the item's
\* position in bundle.docs
IdsOf(bundle, item) ==
  {bundle.summaries[k].id : k \in {i \in 1..Len(bundle.docs) : bundle.docs[i] = item}}

\* C12: the bundles of an items array and of any reordering of it give every
\* (url, path, content) item the same document id, also when two items have
\* the same url.
C12_IdsIndependentOfInputOrder ==
  built # <<>> =>
    \A k \in 1..Len(built[1].items) :
      IdsOf(built[1].bundle, built[1].items[k]) = IdsOf(built[2].bundle, built[1].items[k])

\* two URLs that are equal but for a trailing slash and the fragment
SameComparableUrl(u, v) == u.page = v.page

\* C20: in a bundle, a link entry of a document index carries localDocId = d
\* exactly when the link's resolved URL equals, but for a trailing slash and
\* the fragment, the URL of document d of the batch; a link to a URL outside
\* the batch carries no localDocId.
C20_LocalDocIdNamesTheLinkedDoc ==
  \A b \in 1..Len(built) :
    LET bundle == built[b].bundle IN
    \A k \in 1..Len(bundle.docs) : \A l \in 1..Len(bundle.docIndexes[k]) :
      LET link == bundle.docIndexes[k][l] IN
      /\ \A d \in 1..Len(bundle.summaries) :
           (link.localDocId = bundle.summaries[d].id) <=> SameComparableUrl(link.url, bundle.summaries[d].url)
      /\ (\A d \in 1..Len(bundle.summaries) : ~SameComparableUrl(link.url, bundle.summaries[d].url))
           => link.localDocId = Undefined

\* `${fileBase}.md` and `${fileBase}.index.json`
ContentFile(summary) == Append(summary.file, "md")
IndexFile(summary) == Append(summary.file, "index.json")

\* the first of base-2, base-3, ... that no document before position k has
FirstFreeSuffix(summaries, k, base) ==
  LET before == {summaries[h].file : h \in 1..(k - 1)}
      count == CHOOSE c \in 2..(k + 1) :
                 /\ Suffixed(base, c) \notin before
                 /\ \A b \in 2..(c - 1) : Suffixed(base, b) \in before
  IN Suffixed(base, count)

\* C40: within one bundle the contentFile names (and the indexFile names) of
\* distinct documents are pairwise different whatever the titles: a title
\* whose slug is already used gets the first free suffix -2, -3, ..., also
\* when another document's title slug equals an already suffixed name.
C40_FileNamesPairwiseDifferent ==
  \A b \in 1..Len(built) :
    LET summaries == built[b].bundle.summaries IN
    \A k \in 1..Len(summaries) :
      LET base == SlugifyFileBase(summaries[k].title) IN
      /\ \A h \in 1..(k - 1) :
           /\ ContentFile(summaries[h]) # ContentFile(summaries[k])
           /\ IndexFile(summaries[h]) # IndexFile(summaries[k])
      /\ summaries[k].file =
           IF \A h \in 1..(k - 1) : summaries[h].file # base THEN base
           ELSE FirstFreeSuffix(summaries, k, base)

\* a bundle of a page titled "Guide 2" and two pages titled "Guide": the
\* second "Guide" finds guide and guide-2 used and is named guide-3
C40_Witness ==
  /\ built # <<>>
  /\ Len(built[1].bundle.summaries) = 3
  /\ built[1].bundle.summaries[1].title = "Guide 2"
  /\ built[1].bundle.summaries[1].file = <<"guide", "2">>
  /\ built[1].bundle.summaries[2].file = <<"guide">>
  /\ built[1].bundle.summaries[3].title = "Guide"
  /\ built[1].bundle.summaries[3].file = <<"guide", "3">>

(***************************************************************************)
(* Claims about suggestions in the local store                             *)
(***************************************************************************)
\* the suggested list stored for document u: that of the index file the site
\* index names for u
SuggestedOfDoc(siteIndex, files, u) ==
  IF u \in ListedUrls(siteIndex)
  THEN StoredSuggested(files, siteIndex[CHOOSE k \in 1..Len(siteIndex) : siteIndex[k].url = u].file)
  ELSE <<>>

\* this step wrote, successfully, a bundle of the listed documents plus one
\* new document that is related to none of them
AddsOneUnrelatedDoc ==
  /\ bundlesWritten' = bundlesWritten + 1
  /\ localOutput'.enabled
  /\ \E new \in Docs \ ListedUrls(siteIndexFile) :
       /\ ListedUrls(siteIndexFile') = ListedUrls(siteIndexFile) \cup {new}
       /\ \A u \in ListedUrls(siteIndexFile) : ~Related(u, new)

\* C13: when a bundle of the same documents plus one new unrelated document
\* is written, a document whose index file held a non-empty suggested list
\* has the same list afterwards.
C13_SuggestedListPreserved ==
  [][AddsOneUnrelatedDoc =>
       \A u \in ListedUrls(siteIndexFile) :
         Len(SuggestedOfDoc(siteIndexFile, indexFiles, u)) > 0 =>
           SuggestedOfDoc(siteIndexFile', indexFiles', u) = SuggestedOfDoc(siteIndexFile, indexFiles, u)
    ]_vars

\* the site index gives this id to the document with this url
AssignsId(siteIndex, docId, url) ==
  \E k \in 1..Len(siteIndex) : siteIndex[k].id = docId /\ siteIndex[k].url = url

\* C36: after a bundle is written into a site directory that already holds
\* index files of an earlier run, every entry of every persisted suggested
\* list has a docId that the current site-index.json assigns to the document
\* with that entry's url.
C36_SuggestedIdsAreCurrent ==
  (bundlesWritten = MaxBundles /\ localOutput.enabled) =>
    \A k \in 1..Len(siteIndexFile) :
      LET suggested == StoredSuggested(indexFiles, siteIndexFile[k].file) IN
      \A e \in 1..Len(suggested) :
        AssignsId(siteIndexFile, suggested[e].docId, suggested[e].url)

\* both jobs have written their bundles
BothWritten == \A w \in BundleWriters : bundleWrites[w].pc = "done"

\* C37: if two jobs for the same base URL write their bundles concurrently
\* into the shared site directory, then after both have finished every
\* document listed in site-index.json has a content file and an index file
\* on disk, and the index file's doc.id and doc.url equal those of the
\* listed entry.
C37_ListedDocsMatchTheirFiles ==
  BothWritten =>
    \A k \in 1..Len(siteIndexFile) :
      /\ \E f \in contentFiles : f.file = siteIndexFile[k].file
      /\ \E f \in indexFiles :
           /\ f.file = siteIndexFile[k].file
           /\ f.content.id = siteIndexFile[k].id
           /\ f.content.url = siteIndexFile[k].url

(***************************************************************************)
(* Claims about prunePreloadJobs                                           *)
(***************************************************************************)
\* C14: prunePreloadJobs leaves every running job in the table, however old
\* it is and however many jobs the table holds.
C14_PruneKeepsRunningJobs ==
  pruned # <<>> =>
    \A j \in DOMAIN pruned[1].status :
      pruned[1].status[j] = "running" => j \in pruned[1].left

\* a table over the limit whose oldest job is running and older than the
\* TTL; both rules removed jobs, the running job is still there
C14_Witness ==
  /\ pruned # <<>>
  /\ Len(pruned[1].status) > maxJobs
  /\ pruned[1].status[1] = "running" /\ 1 \in pruned[1].old /\ 1 \in pruned[1].left
  /\ \E j \in pruned[1].old : j \notin pruned[1].left
  /\ \E j \in DOMAIN pruned[1].status : j \notin pruned[1].old /\ j \notin pruned[1].left
  /\ Cardinality(pruned[1].left) = maxJobs

(***************************************************************************)
(* Claims about the status and result queries                              *)
(***************************************************************************)
Unfinished == {"queued", "running"}

\* the queries answer for an unfinished job: unfinished, and its status
UnfinishedJobsAnswered(j) ==
  /\ (InMemoryAfterPrune(j) /\ job[j].status \in Unfinished) =>
       /\ GetPreloadJobResultAnswer(j) = "unfinished"
       /\ GetPreloadJobStatusAnswer(j).found
       /\ GetPreloadJobStatusAnswer(j).status = job[j].status
  /\ (~InMemoryAfterPrune(j) /\ jobFile[j].status \in Unfinished) =>
       /\ GetPreloadJobResultAnswer(j) = "unfinished"
       /\ GetPreloadJobStatusAnswer(j).found
       /\ GetPreloadJobStatusAnswer(j).status = jobFile[j].status

\* C15 as stated: the result query answers not_found and the status query
\* null only for an id with neither an in-memory job nor a persisted record;
\* for a queued or running job (in memory or only persisted) the result query
\* answers unfinished and the status query its current status.
C15_NotFoundOnlyForUnknownIds ==
  \A j \in JobIds :
    /\ GetPreloadJobResultAnswer(j) = "not_found" =>
         (~InMemoryAfterPrune(j) /\ jobFile[j].status = "absent")
    /\ ~GetPreloadJobStatusAnswer(j).found =>
         (~InMemoryAfterPrune(j) /\ jobFile[j].status = "absent")
    /\ UnfinishedJobsAnswered(j)

\* C15 as amended: the status query answers null only for an id with neither
\* an in-memory job nor a persisted record; the result query answers
\* not_found for such an id and also for a job that is gone from memory and
\* whose job.json says completed; unfinished jobs are answered as stated.
C15_NotFoundForUnknownOrExpired ==
  \A j \in JobIds :
    /\ GetPreloadJobResultAnswer(j) = "not_found" =>
         (~InMemoryAfterPrune(j) /\ jobFile[j].status \in {"absent", "completed"})
    /\ ~GetPreloadJobStatusAnswer(j).found =>
         (~InMemoryAfterPrune(j) /\ jobFile[j].status = "absent")
    /\ UnfinishedJobsAnswered(j)

\* a job that was pruned from the table while queued is answered from its
\* job.json: unfinished
C15_Witness ==
  \E j \in JobIds :
    /\ j <= nextJob /\ j \notin preloadJobs
    /\ jobFile[j].status = "queued"
    /\ GetPreloadJobResultAnswer(j) = "unfinished"
    /\ GetPreloadJobStatusAnswer(j).status = "queued"

(***************************************************************************)
(* Claims about what the snapshots hold                                    *)
(***************************************************************************)
WritePcs == {"enq_write", "run_write", "term_write"}

\* a change of a job's status starts a snapshot write that carries it
TransitionStartsWrite ==
  \A j \in JobIds :
    job'[j].status # job[j].status =>
      /\ task'[j].pc \in WritePcs
      /\ task'[j].snap.status = job'[j].status

\* no per-target write is in flight while the terminal one is
TargetWritesBeforeTerminal ==
  \A j \in JobIds :
    task[j].pc = "term_write" => \A w \in WorkerIds : workers[j][w].pc # "snap"

\* job j was created and the status query does not find it in the table
GoneFromMemory(j) == j <= nextJob /\ ~InMemoryAfterPrune(j)

\* the status query answers with the status and the counters of the job object
AnswersLastStatus(j) ==
  GetPreloadJobStatusAnswer(j).found /\ GetPreloadJobStatusAnswer(j).status = job[j].status
AnswersLastProgress(j) == GetPreloadJobStatusAnswer(j).progress = Progress(job[j])

\* C16 as stated: every status transition is followed by a snapshot write
\* with the new status, the per-target writes finish before the terminal one
\* starts, and so, while no write fails, the status query answers for a job
\* that is gone from memory (eviction or restart) with the status and the
\* progress counters the job last had in memory.
C16_PersistedIsLastInMemory ==
  /\ [][TransitionStartsWrite]_vars
  /\ [](TargetWritesBeforeTerminal)
  /\ [](\A j \in JobIds : GoneFromMemory(j) => AnswersLastStatus(j) /\ AnswersLastProgress(j))

\* C16 as amended: the same, but only once no snapshot write of the job is
\* in flight or was cut off by the restart; and the counters are promised
\* after an eviction only, not after a restart.
C16_PersistedIsLastInMemoryOnceWritten ==
  /\ [][TransitionStartsWrite]_vars
  /\ [](TargetWritesBeforeTerminal)
  /\ [](\A j \in JobIds :
          (GoneFromMemory(j) /\ ~WriteInFlight(j) /\ task[j].pc # "cut") =>
             /\ AnswersLastStatus(j)
             /\ task[j].pc # "dead" => AnswersLastProgress(j))

\* a completed job with a fetched target was evicted after its terminal
\* write; the status query answers from job.json
C16_Witness ==
  \E j \in JobIds :
    /\ GoneFromMemory(j) /\ task[j].pc = "done"
    /\ job[j].status = "completed" /\ job[j].completed > 0
    /\ GetPreloadJobStatusAnswer(j).status = "completed"
    /\ GetPreloadJobStatusAnswer(j).progress.completed = job[j].completed

(***************************************************************************)
(* Claims about failing snapshot writes                                    *)
(***************************************************************************)
\* where runPreloadJob goes on after the write it awaited at pc, whether the
\* write failed or not
AfterWrite(pc, inTable) ==
  CASE pc = "enq_write" -> IF inTable THEN "run_write" ELSE "returned"
    [] pc = "run_write" -> "discover"
    [] pc = "term_write" -> "done"

\* the write awaited by the task of job j settles in this step
TaskWriteSettles(j) == task[j].pc \in WritePcs /\ task'[j].pc # task[j].pc
\* the per-target write of worker w of job j settles in this step
WorkerWriteSettles(j, w) == workers[j][w].pc = "snap" /\ workers'[j][w].pc # "snap"

\* a settling write, failed or not, leaves the job object alone (the start of
\* a job in the table sets it running) and the task goes on
WriteOutcomeIgnored ==
  \A j \in JobIds :
    /\ TaskWriteSettles(j) =>
         /\ job'[j] = IF task[j].pc = "enq_write" /\ j \in preloadJobs
                       THEN [job[j] EXCEPT !.status = "running"] ELSE job[j]
         /\ task'[j].pc = AfterWrite(task[j].pc, j \in preloadJobs)
    /\ \A w \in WorkerIds :
         WorkerWriteSettles(j, w) => job'[j] = job[j] /\ task'[j].pc = "pool"

\* the messages of the throw statements of runPreloadJob and of what it awaits
OwnErrors ==
  {"Invalid URL", "No targets found to preload.", "Failed to initialize local output",
   "No pages could be preloaded. Check baseUrl and crawl settings.",
   "Failed to write local output", "Failed to finalize scraped JSONL"}

\* C17: a failure of writeJobSnapshot at enqueue, start, per-target progress
\* or the end is caught and changes nothing of the job's in-memory status,
\* progress, result or error: the job goes on as after a successful write,
\* and a failed job carries the message of its own failure.
C17_WriteFailureIsInvisibleInMemory ==
  /\ [][WriteOutcomeIgnored]_vars
  /\ [](\A j \in JobIds : job[j].status = "failed" => job[j].error \in OwnErrors)

\* a job completed with its result although none of its snapshot writes
\* reached job.json
C17_Witness ==
  \E j \in JobIds :
    /\ task[j].pc = "done" /\ jobFile[j].status = "absent"
    /\ job[j].status = "completed" /\ job[j].result.present

\* C38: in every reachable state of an in-memory job, result is present if
\* and only if status is completed, and error is present if and only if
\* status is failed.
C38_ResultIffCompletedErrorIffFailed ==
  \A j \in JobIds :
    job[j].status # "none" =>
      /\ job[j].result.present <=> job[j].status = "completed"
      /\ job[j].error # "" <=> job[j].status = "failed"

\* a job completed with its result and no error although its last snapshot
\* write failed, and runPreloadJob is over
C38_Witness ==
  \E j \in JobIds :
    /\ task[j].pc = "done" /\ jobFile[j].status # "completed"
    /\ job[j].status = "completed" /\ job[j].result.present /\ job[j].error = ""
    /\ job[j].failed > 0

\* Promise.all(workers) of the job has resolved
WorkersFinished(j) ==
  /\ task[j].pc \in {"pool", "bundle", "finalize", "term_write", "done"}
  /\ \A w \in WorkerIds : workers[j][w].pc \in {"done", "unused"}
  /\ \E w \in WorkerIds : workers[j][w].pc = "done"

\* C39: for every job, progress.completed and progress.failed never
\* decrease, progress.completed + progress.failed <= progress.total holds in
\* every state, equality holds once all workers have finished, and the length
\* of the job's error list always equals progress.failed.
C39_ProgressCountsTargets ==
  /\ [][\A j \in JobIds :
          job[j].status # "none" =>
            /\ job'[j].completed >= job[j].completed
            /\ job'[j].failed >= job[j].failed]_vars
  /\ [](\A j \in JobIds :
          /\ job[j].completed + job[j].failed <= job[j].total
          /\ WorkersFinished(j) => job[j].completed + job[j].failed = job[j].total
          /\ Len(task[j].errors) = job[j].failed)

\* the workers of a job have finished: some targets were preloaded, the
\* others are in the error list, and together they are all targets
C39_Witness ==
  \E j \in JobIds :
    /\ WorkersFinished(j)
    /\ job[j].completed > 0 /\ job[j].failed > 0
    /\ job[j].completed + job[j].failed = job[j].total
    /\ Len(task[j].errors) = job[j].failed

(***************************************************************************)
(* Claims about the requests of enqueuePreloadJob                          *)
(***************************************************************************)
\* a baseUrl that is missing, not a string, or blank
InvalidBaseUrl(v) == v.type \in {"undefined", "number"} \/ v.text \in BlankStrings

\* a step in which a call of enqueuePreloadJob threw or created its job
EnqueueReturns == enqueueErrors' # enqueueErrors \/ nextJob' # nextJob

\* C18: enqueuePreloadJob with a missing, non-string or blank baseUrl throws
\* before it creates anything: the job table, the job objects, the persisted
\* snapshots (and with them the jobs list) stay as they are and no task is
\* started.
C18_InvalidBaseUrlCreatesNothing ==
  [][EnqueueReturns =>
       \A body \in Bodies :
         (InvalidBaseUrl(body.baseUrl) /\ EnqueuePreloadJob(body)) =>
            /\ "baseUrl is required." \in enqueueErrors'
            /\ UNCHANGED <<preloadJobs, job, jobFile, task, workers, nextJob, updatedOrder>>]_vars

\* a request without a usable baseUrl was refused while a job was running
C18_Witness ==
  /\ "baseUrl is required." \in enqueueErrors
  /\ \E j \in preloadJobs : job[j].status = "running" /\ task[j].pc = "pool"

\* a request value that is not a finite number
NotFiniteNumber(x) == x.type # "number" \/ ~x.finite

\* the targets a job is working on: fetched, written as scratch, or recorded
InFlight(j) == {w \in WorkerIds : workers[j][w].pc \in {"fetch", "scratch", "snap"}}

\* C19: the normalized concurrency of a job is an integer in 1..12, and 4
\* when the request value is not a finite number; and no more than
\* min(concurrency, number of targets) targets of a job are being processed
\* at any moment.
C19_ConcurrencyBounded ==
  /\ [][\A body \in Bodies :
          (nextJob' # nextJob /\ EnqueuePreloadJob(body)) =>
             /\ task'[nextJob'].concurrency \in 1..12
             /\ NotFiniteNumber(body.concurrency) => task'[nextJob'].concurrency = 4]_vars
  /\ [](\A j \in JobIds :
          Cardinality(InFlight(j)) <= Min(task[j].concurrency, task[j].targets))

\* a job of concurrency 1 with two targets has one of them in flight
C19_Witness ==
  \E j \in JobIds :
    /\ task[j].concurrency = 1 /\ task[j].targets = 2
    /\ Cardinality(InFlight(j)) = 1 /\ task[j].index = 2

(***************************************************************************)
(* Claims about buildPreloadTargets and normalizeMaxPages                  *)
(***************************************************************************)
\* the normalized form of a path, as the claims mean it
Normalized(path) == IF path.kind = "bare" THEN TargetPath("rooted", path.name) ELSE path

NoRepeats(seq) == \A a \in 1..Len(seq) : \A b \in 1..Len(seq) : a # b => seq[a] # seq[b]

\* position of the first occurrence of element x in seq
FirstAt(seq, x) == CHOOSE k \in 1..Len(seq) : seq[k] = x /\ \A h \in 1..(k - 1) : seq[h] # x

\* r is the order-preserving de-duplication of s
IsDedupOf(r, s) ==
  /\ NoRepeats(r)
  /\ {r[k] : k \in 1..Len(r)} = {s[k] : k \in 1..Len(s)}
  /\ \A a \in 1..Len(r) : \A b \in 1..Len(r) : a < b => FirstAt(s, r[a]) < FirstAt(s, r[b])

\* the floor of num/den clamped into lo..hi, from the definition of floor
ClampedFloor(x, lo, hi) ==
  LET f == CHOOSE f \in (lo - 1)..(hi + 1) :
             \/ f = lo - 1 /\ x.num < lo * x.den
             \/ f = hi + 1 /\ x.num >= (hi + 1) * x.den
             \/ f \in lo..hi /\ f * x.den <= x.num /\ x.num < (f + 1) * x.den
  IN IF f < lo THEN lo ELSE IF f > hi THEN hi ELSE f

\* what normalizeMaxPages is claimed to return
ClaimedMaxPages(x) ==
  IF x.type # "number" \/ x.kind = "NaN" THEN 200
  ELSE IF x.kind = "+Infinity" THEN 2000
  ELSE IF x.kind = "-Infinity" THEN 1
  ELSE ClampedFloor(x, 1, 2000)

\* the targets are the head of the de-duplicated normalized paths, base first
TargetsAreHeadOfDedup(call) ==
  LET opts == call.input
      all == [k \in 1..Len(opts.paths) |-> Normalized(opts.paths[k])]
      withBase == IF opts.includeBase THEN <<EmptyPath>> \o all ELSE all
  IN /\ \E full \in {DedupePaths(withBase)} :
          /\ IsDedupOf(full, withBase)
          /\ call.result = SubSeq(full, 1, Min(ClaimedMaxPages(opts.maxPages), Len(full)))
     /\ (opts.includeBase => call.result[1] = EmptyPath)
     /\ NoRepeats([k \in 1..Len(call.result) |-> Normalized(call.result[k])])

\* the result has no more elements than the number maxPages itself
AtMostMaxPages(call) ==
  (call.input.maxPages.type = "number" /\ call.input.maxPages.kind = "finite") =>
     Len(call.result) * call.input.maxPages.den <= call.input.maxPages.num

TargetCalls == {k \in 1..Len(helperCalls) : helperCalls[k].fn = "buildPreloadTargets"}
MaxPagesCalls == {k \in 1..Len(helperCalls) : helperCalls[k].fn = "normalizeMaxPages"}

\* C21 as stated: buildPreloadTargets returns the first
\* normalizeMaxPages(maxPages) elements of the order-preserving
\* de-duplication of the normalized paths, the empty path first when
\* includeBase is true; the result never has a normalized path twice and
\* never more than maxPages elements.
C21_TargetsDedupedAndCapped ==
  \A k \in TargetCalls :
    TargetsAreHeadOfDedup(helperCalls[k]) /\ AtMostMaxPages(helperCalls[k])

\* C21 as amended: the same, with the cap being normalizeMaxPages(maxPages).
C21_TargetsDedupedAndCappedByNormalizedMax ==
  \A k \in TargetCalls :
    /\ TargetsAreHeadOfDedup(helperCalls[k])
    /\ Len(helperCalls[k].result) <= ClaimedMaxPages(helperCalls[k].input.maxPages)

\* the call of the test: base included, maxPages 3, a path given twice (once
\* bare), more paths than fit
C21_Witness ==
  \E k \in TargetCalls :
    /\ helperCalls[k].input.includeBase
    /\ helperCalls[k].input.maxPages = MaxPagesValue("number", "finite", 3, 1)
    /\ helperCalls[k].input.paths = <<TargetPath("bare", "a"), TargetPath("rooted", "a"), TargetPath("rooted", "b")>>
    /\ helperCalls[k].result = <<EmptyPath, TargetPath("rooted", "a"), TargetPath("rooted", "b")>>

\* C22: normalizeMaxPages returns 200 for an input that is not a number or is
\* NaN, else floor(input) clamped into 1..2000; the result is always an
\* integer in 1..2000.
C22_MaxPagesClamped ==
  \A k \in MaxPagesCalls :
    /\ helperCalls[k].result \in 1..2000
    /\ helperCalls[k].result = ClaimedMaxPages(helperCalls[k].input)

\* normalizeMaxPages(0) = 1
C22_Witness ==
  \E k \in MaxPagesCalls :
    /\ helperCalls[k].input = MaxPagesValue("number", "finite", 0, 1)
    /\ helperCalls[k].result = 1

(***************************************************************************)
(* Claims about searchLocalDocumentation                                   *)
(***************************************************************************)
SearchCalls == {k \in 1..Len(helperCalls) : helperCalls[k].fn = "searchLocalDocumentation"}

\* the stored documents in scope that match a query that is not blank, by
\* their position in the store
MatchesOf(input) ==
  IF input.blank THEN {}
  ELSE {k \in 1..Len(input.docs) :
          /\ input.slug = "" \/ input.docs[k].slug = input.slug
          /\ TitleIncludesQuery(input.docs[k].title) \/ input.docs[k].contentIndex >= 0}

\* document a comes strictly before document b: higher score, then lower
\* slug, then lower title
RankedBefore(a, b) ==
  LET sa == ComputeSearchScore(a.title, a.contentIndex)
      sb == ComputeSearchScore(b.title, b.contentIndex)
  IN \/ sa > sb
     \/ sa = sb /\ SlugRank(a.slug) < SlugRank(b.slug)
     \/ sa = sb /\ a.slug = b.slug /\ TitleRank(a.title) < TitleRank(b.title)

\* the limit as the claim gives it
ClaimedLimit(x) == IF x.type = "number" /\ x.finite THEN ClampedFloor(x, 1, 200) ELSE 50

\* C23: searchLocalDocumentation scores every matching document of every
\* slug in scope before it truncates: the results are the first `limit`
\* (clamped to 1..200, default 50) of all matches ordered by score
\* descending, slug ascending, title ascending, and totalResults counts the
\* matches before truncation.
C23_SearchRanksAllThenTruncates ==
  \A c \in SearchCalls :
    LET input == helperCalls[c].input
        results == helperCalls[c].result.results
        matches == MatchesOf(input)
        returned == {results[k].docId : k \in 1..Len(results)}
    IN /\ helperCalls[c].result.totalResults = Cardinality(matches)
       /\ Len(results) = Min(ClaimedLimit(input.limit), Cardinality(matches))
       /\ Cardinality(returned) = Len(results)
       /\ returned \subseteq matches
       /\ \A k \in 1..(Len(results) - 1) :
            ~RankedBefore(input.docs[results[k + 1].docId], input.docs[results[k].docId])
       /\ \A m \in matches \ returned : \A r \in returned :
            ~RankedBefore(input.docs[m], input.docs[r])

\* two sites each have a match, limit 1: the better one, of the second
\* site, is the one returned, and both are counted
C23_Witness ==
  \E c \in SearchCalls :
    /\ helperCalls[c].input.limit = Num(1, 1)
    /\ Len(helperCalls[c].input.docs) = 2
    /\ helperCalls[c].result.totalResults = 2
    /\ Len(helperCalls[c].result.results) = 1
    /\ helperCalls[c].result.results[1].slug = "b"
    /\ helperCalls[c].input.docs[1].slug = "a"

====
